---- MODULE Spec2Model ----
(***************************************************************************)
(* State-machine model of the download orchestration code of the bot:      *)
(*   utils/cache_manager.py    QueueManager (list + dict keyed by user)    *)
(*   utils/queue_manager.py    QueueManager (deque + set of tasks)         *)
(*   utils/download_manager.py DownloadManager (semaphore, chunked copy)   *)
(*   utils/db_manager.py       DatabaseManager (downloads table)           *)
(*   service_handlers/tidal_handler.py, batch_handler.py (album / batch)   *)
(* Every component has its own variables and its own specification; a      *)
(* specification leaves the variables of the other components unchanged.   *)
(***************************************************************************)
EXTENDS Integers, Sequences, FiniteSets, TLC

(* ---------------------------- bounds ----------------------------------- *)
MaxJobs == 5          \* number of add_to_queue calls explored (cache_manager)
NumUsers == 3         \* user ids 1..NumUsers
QM_MaxCoros == 4      \* number of add_to_queue calls explored (queue_manager)
DM_MaxConcurrent == 1 \* max_concurrent_downloads given to DownloadManager(...)
DM_NumRequests == 2   \* number of DownloadRequests
DM_NumChunks == 2     \* chunks in a response body
DB_MaxRows == 2       \* rows inserted into table downloads
BT_NumUrls == 3       \* urls given to batch_download: one album, then tracks
AL_NumTracks == 3     \* tracks of the album
DL_NumDownloads == 2  \* number of Downloader.download calls
PT_NumChunks == 3     \* chunks of the download that reports progress
PT_MaxTime == 5       \* seconds of the event loop clock explored
RL_NumUsers == 2      \* users of the rate limiter
RL_MaxLimit == 1      \* max_requests given to RateLimiter(...) is in 0..RL_MaxLimit
RL_MaxWindow == 2     \* time_window given to RateLimiter(...) is in 1..RL_MaxWindow
RL_MaxTime == 3       \* seconds of time.time() explored
RL_MaxCalls == 4      \* number of can_proceed calls explored
DZ_NumTracks == 3      \* tracks of the album given to download_album
DA_MaxInterval == 2    \* largest interval of a device code response
DA_MaxExpiresIn == 4   \* largest expires_in of a device code response
PD_MaxProgress == 3    \* progress callbacks of one download
PD_MaxEdits == 3       \* edits of the progress updater explored
TB_MaxFlows == 2       \* /auth commands of the user
HU_NumUsers == 2      \* users who send urls to handle_url

Users == 1..NumUsers
Urls == {"https://tidal.com/browse/track/1"}
Qualities == {"high"}
Formats == {"flac"}

(* utils/constants.py DownloadStatus *)
PENDING == "pending"
DOWNLOADING == "downloading"
COMPLETED == "completed"
FAILED == "failed"
CANCELLED == "cancelled"
DownloadStatus == {PENDING, DOWNLOADING, COMPLETED, FAILED, CANCELLED}
Terminal == {COMPLETED, FAILED, CANCELLED}

VARIABLES
    (* utils/cache_manager.py QueueManager *)
    cmItems,      \* every QueueItem created so far, in creation order
    cmQueue,      \* self.queue: sequence of indexes into cmItems
    cmActive,     \* self.active_downloads: dict user_id -> item index
    cmTask,       \* the asyncio task of process_download(item), per item
    cmAdmitted,   \* history: items in the order process_queue admitted them
    (* utils/queue_manager.py QueueManager *)
    qmCoro,       \* per submitted coroutine: where it is
    qmQueue,      \* self.queue: deque of coroutines
    qmActive,     \* self.active_tasks: set of tasks
    qmPending,    \* number of process_queue() tasks created by task_done, not run yet
    qmAdmitted,   \* history: coroutines in the order process_queue started them
    qmRaised,     \* history: coroutines whose add_to_queue call raised
    (* utils/download_manager.py DownloadManager, one entry per DownloadRequest *)
    dmSem,             \* value of self.semaphore
    dmActiveDownloads, \* self.active_downloads: dict download_id -> request
    dmPc,              \* where download(request) is
    dmCancelled,       \* request.cancelled
    dmFileExists,      \* a file exists at request.output_path
    dmWritten,         \* chunks written to that file
    dmAttempts,        \* number of session.get(request.url) calls made
    dmStatus,          \* response.status of the last response (0: none yet)
    dmError,           \* message of the exception download() ended with
    dmCancelAt,        \* history: where the request was when it was first cancelled
    (* music_downloader.py TidalDownloader.download_track, one call *)
    tdPc,         \* where download_track is
    tdError,      \* the exception download_track ended with
    tdCalls,      \* number of HTTP requests sent, per step
    tdFile,       \* the file at filepath
    (* utils/db_manager.py DatabaseManager *)
    dbDownloads,  \* rows of table downloads; the row id is the index
    (* service_handlers/batch_handler.py, tidal_handler.py *)
    btGather,     \* batch_download: where the call is
    btTask,       \* the download_single task of each url of the batch
    alPc,         \* download_album (url 1 of the batch): where the call is
    alTrack,      \* per track of the album: its download_track call
    (* utils/downloader.py Downloader *)
    dlName,       \* per download(url, filename, total_size) call: its filename
    dlPc,         \* per call: where its _download task is
    dlMustCancel, \* per call: task.cancel() was called on its task
    dlCount,      \* per call: chunks the task has written
    dlTasks,      \* self.tasks: dict filename -> task
    dlFile,       \* the files on disk: dict filename -> number of chunk writes
    (* utils/progress.py ProgressTracker fed by _download_file *)
    ptNow,            \* asyncio.get_event_loop().time(), in seconds
    ptLastUpdateTime, \* self.last_update_time
    ptPc,             \* where the download that reports to the tracker is
    ptTotal,          \* total_size read from the content-length header
    ptDownloaded,     \* downloaded, in chunks
    ptEdits,          \* history: the message edits made, each with its time
    ptError,          \* the exception that ended the download
    (* utils/rate_limiter.py RateLimiter *)
    rlPc,             \* "none" until RateLimiter(...) has been constructed
    rl_max_requests,  \* self.max_requests
    rl_time_window,   \* self.time_window
    rlRequests,       \* self.requests: dict user_id -> list of request times
    rlNow,            \* time.time(), in seconds
    rlResult,         \* the last call: its user and what it returned or raised
    rlGranted,        \* history: per user, the times at which can_proceed allowed
    rlReset,          \* history: the users reset_user has removed
    rlCalls,          \* history: the number of can_proceed calls made
    (* handlers/download_handler.py handle_url with utils/url_parser.py *)
    huUserData,       \* per user: context.user_data['current_download']
    huLast,           \* the last handle_url call: user, url, parse result, reply
    (* modules/tidal/tidal_api.py, music_downloader.py: download url by quality *)
    tqLast,           \* the last get_track_download_url / get_download_url call
    (* service_handlers/deezer_handler.py: download_track of each album track *)
    dzPc,             \* position in download_track
    dzTrack,          \* index of the track download_album is at
    dzCoverUrl,       \* track_info.cover_url is set
    dzAudio,          \* track -> the file at file_path
    dzCoverFile,      \* track -> the file at cover_path
    dzResults,        \* the results download_album has collected ('success')
    (* modules/tidal/tidal_api.py, api.py: _wait_for_device_auth *)
    daPc,             \* position in _wait_for_device_auth
    daImpl,           \* which of the two TidalApi classes runs
    daInterval,       \* interval of the device code response
    daExpiresIn,      \* expires_in of the device code response
    daNow,            \* time.time() - start_time
    daApproved,       \* the user has approved the device
    daPolls,          \* the times at which a token request was sent
    daError,          \* the exception _wait_for_device_auth raised
    (* handlers/download_handler.py: process_download and _update_progress *)
    pdPc,             \* position in process_download
    pdStatus,         \* the DownloadStatus object
    pdUpdater,        \* the _update_progress task: none, running, exited
    pdEdits,          \* message edits the updater has made
    (* telegram_bot.py: the credential conversation of one user *)
    tbState,          \* the conversation state the last handler returned
    tbUserData,       \* context.user_data: keys service and username
    tbFlows,          \* history: the number of /auth commands
    tbReplies,        \* history: the text replies since the service was chosen
    tbAttempt         \* history: the last authentication attempt and its replies

cmVars == <<cmItems, cmQueue, cmActive, cmTask, cmAdmitted>>
qmVars == <<qmCoro, qmQueue, qmActive, qmPending, qmAdmitted, qmRaised>>
dmVars == <<dmSem, dmActiveDownloads, dmPc, dmCancelled, dmFileExists, dmWritten,
            dmAttempts, dmStatus, dmError, dmCancelAt>>
tdVars == <<tdPc, tdError, tdCalls, tdFile>>
dbVars == <<dbDownloads>>
btVars == <<btGather, btTask, alPc, alTrack>>
dlVars == <<dlName, dlPc, dlMustCancel, dlCount, dlTasks, dlFile>>
ptVars == <<ptNow, ptLastUpdateTime, ptPc, ptTotal, ptDownloaded, ptEdits, ptError>>
rlVars == <<rlPc, rl_max_requests, rl_time_window, rlRequests, rlNow, rlResult,
            rlGranted, rlReset, rlCalls>>
huVars == <<huUserData, huLast>>
tqVars == <<tqLast>>
dzVars == <<dzPc, dzTrack, dzCoverUrl, dzAudio, dzCoverFile, dzResults>>
daVars == <<daPc, daImpl, daInterval, daExpiresIn, daNow, daApproved, daPolls, daError>>
pdVars == <<pdPc, pdStatus, pdUpdater, pdEdits>>
tbVars == <<tbState, tbUserData, tbFlows, tbReplies, tbAttempt>>

vars == <<cmVars, qmVars, dmVars, tdVars, dbVars, btVars, dlVars, ptVars, rlVars, huVars, tqVars, dzVars, daVars, pdVars, tbVars>>

(* ------------------------- dict helpers -------------------------------- *)
DictSet(d, k, v) == [x \in (DOMAIN d) \cup {k} |-> IF x = k THEN v ELSE d[x]]
DictDel(d, k) == [x \in (DOMAIN d) \ {k} |-> d[x]]
EmptyDict == [x \in {} |-> 0]
Range(s) == {s[i] : i \in DOMAIN s}

(* ================= utils/cache_manager.py QueueManager ================== *)
cm_max_concurrent == 3

CMInit ==
    /\ cmItems = <<>>
    /\ cmQueue = <<>>
    /\ cmActive = EmptyDict
    /\ cmTask = <<>>
    /\ cmAdmitted = <<>>

QueueItem(user_id, file_url, quality, format) ==
    [user_id |-> user_id, file_url |-> file_url, quality |-> quality,
     format |-> format, status |-> PENDING]

(* self.queue.pop(0): the popped element and the rest of the list *)
CM_pop(queue) == [item |-> Head(queue), rest |-> Tail(queue)]

(* process_queue: the while loop, on a record of the fields it touches *)
RECURSIVE CM_process_queue(_)
CM_process_queue(s) ==
    IF Cardinality(DOMAIN s.active) < cm_max_concurrent /\ s.queue /= <<>>
    THEN LET p == CM_pop(s.queue)
             next_item == p.item
         IN CM_process_queue(
              [s EXCEPT !.queue = p.rest,
                        !.active = DictSet(s.active, s.items[next_item].user_id, next_item),
                        !.task = [s.task EXCEPT ![next_item] = "created"],
                        !.admitted = Append(s.admitted, next_item)])
    ELSE s

CM_state == [items |-> cmItems, queue |-> cmQueue, active |-> cmActive,
             task |-> cmTask, admitted |-> cmAdmitted]

CM_install(s) ==
    /\ cmItems' = s.items
    /\ cmQueue' = s.queue
    /\ cmActive' = s.active
    /\ cmTask' = s.task
    /\ cmAdmitted' = s.admitted

(* add_to_queue(user_id, file_url, quality, format): append, process_queue *)
CM_add_to_queue(user_id, file_url, quality, format) ==
    /\ Len(cmItems) < MaxJobs
    /\ LET item == Len(cmItems) + 1
           s0 == [CM_state EXCEPT
                    !.items = Append(cmItems, QueueItem(user_id, file_url, quality, format)),
                    !.queue = Append(cmQueue, item),
                    !.task = Append(cmTask, "none")]
           s1 == CM_process_queue(s0)
       IN CM_install(s1)

(* process_download, first step of the task: item.status = 'downloading',   *)
(* then the download logic of lines 46-47 runs (the coroutine is suspended) *)
CM_process_download_begin(item) ==
    /\ item \in DOMAIN cmTask
    /\ cmTask[item] = "created"
    /\ cmItems' = [cmItems EXCEPT ![item].status = DOWNLOADING]
    /\ cmTask' = [cmTask EXCEPT ![item] = "running"]
    /\ UNCHANGED <<cmQueue, cmActive, cmAdmitted>>

(* process_download, rest: the download logic returns (ok) or raises, then  *)
(* the finally block: del self.active_downloads[user_id]; process_queue()   *)
CM_process_download_end(item, ok) ==
    /\ item \in DOMAIN cmTask
    /\ cmTask[item] = "running"
    /\ LET items1 == [cmItems EXCEPT ![item].status = IF ok THEN COMPLETED ELSE FAILED]
           user_id == cmItems[item].user_id
       IN IF user_id \in DOMAIN cmActive
          THEN CM_install(CM_process_queue(
                   [CM_state EXCEPT !.items = items1,
                                    !.active = DictDel(cmActive, user_id),
                                    !.task = [cmTask EXCEPT ![item] = "done"]]))
          ELSE \* KeyError leaves the finally block, process_queue is not reached
               CM_install([CM_state EXCEPT !.items = items1,
                                           !.task = [cmTask EXCEPT ![item] = "KeyError"]])

(* The callers.  User ids are interchangeable (the code only compares them), *)
(* so a caller's id is one already seen or the least id not seen yet.       *)
SeenUsers == {cmItems[i].user_id : i \in DOMAIN cmItems}
AddToQueue ==
    /\ \E u \in Users, f \in Urls, q \in Qualities, fmt \in Formats :
        /\ u <= Cardinality(SeenUsers) + 1
        /\ CM_add_to_queue(u, f, q, fmt)
    /\ UNCHANGED <<qmVars, dmVars, tdVars, dbVars, btVars, dlVars, ptVars, rlVars, huVars, tqVars, dzVars, daVars, pdVars, tbVars>>
ProcessDownloadBegin ==
    /\ \E i \in 1..MaxJobs : CM_process_download_begin(i)
    /\ UNCHANGED <<qmVars, dmVars, tdVars, dbVars, btVars, dlVars, ptVars, rlVars, huVars, tqVars, dzVars, daVars, pdVars, tbVars>>
ProcessDownloadEnd ==
    /\ \E i \in 1..MaxJobs, ok \in BOOLEAN : CM_process_download_end(i, ok)
    /\ UNCHANGED <<qmVars, dmVars, tdVars, dbVars, btVars, dlVars, ptVars, rlVars, huVars, tqVars, dzVars, daVars, pdVars, tbVars>>

(* ================= utils/queue_manager.py QueueManager ================== *)
qm_max_concurrent == 3

QMInit ==
    /\ qmCoro = [c \in 1..QM_MaxCoros |-> "new"]
    /\ qmQueue = <<>>
    /\ qmActive = {}
    /\ qmPending = 0
    /\ qmAdmitted = <<>>
    /\ qmRaised = {}

QM_pop_right(queue) ==
    [item |-> queue[Len(queue)], rest |-> SubSeq(queue, 1, Len(queue) - 1)]

(* self.queue.popleft() *)
QM_popleft(queue) == [item |-> Head(queue), rest |-> Tail(queue)]

(* process_queue: the while loop *)
RECURSIVE QM_process_queue(_)
QM_process_queue(s) ==
    IF s.queue /= <<>> /\ Cardinality(s.active) < qm_max_concurrent
    THEN LET p == QM_popleft(s.queue)
             coro == p.item
         IN QM_process_queue(
              [s EXCEPT !.queue = p.rest,
                        !.coro = [s.coro EXCEPT ![coro] = "running"],
                        !.active = s.active \cup {coro},
                        !.admitted = Append(s.admitted, coro)])
    ELSE s

QM_state == [coro |-> qmCoro, queue |-> qmQueue, active |-> qmActive,
             admitted |-> qmAdmitted]

QM_install(s) ==
    /\ qmCoro' = s.coro
    /\ qmQueue' = s.queue
    /\ qmActive' = s.active
    /\ qmAdmitted' = s.admitted

(* add_to_queue(coro): `await self.queue.append(coro)` appends, and then     *)
(* raises TypeError, because deque.append returns None and None cannot be   *)
(* awaited; line 12 (process_queue) is not reached                          *)
QM_add_to_queue(coro) ==
    /\ qmCoro[coro] = "new"
    /\ \A c \in 1..(coro - 1) : qmCoro[c] /= "new"
    /\ QM_install([QM_state EXCEPT !.queue = Append(qmQueue, coro),
                                   !.coro = [qmCoro EXCEPT ![coro] = "queued"]])
    /\ qmRaised' = qmRaised \cup {coro}
    /\ UNCHANGED qmPending

(* a caller awaits process_queue() itself *)
QM_process_queue_call ==
    /\ qmQueue /= <<>>
    /\ QM_install(QM_process_queue(QM_state))
    /\ UNCHANGED <<qmPending, qmRaised>>

(* the coroutine of a task returns or raises: the task is done and its done *)
(* callback is scheduled                                                    *)
QM_task_finish(coro) ==
    /\ qmCoro[coro] = "running"
    /\ qmCoro' = [qmCoro EXCEPT ![coro] = "finished"]
    /\ UNCHANGED <<qmQueue, qmActive, qmPending, qmAdmitted, qmRaised>>

(* task_done(task): remove the task, create a task for process_queue() *)
QM_task_done(coro) ==
    /\ qmCoro[coro] = "finished"
    /\ qmActive' = qmActive \ {coro}
    /\ qmCoro' = [qmCoro EXCEPT ![coro] = "removed"]
    /\ qmPending' = qmPending + 1
    /\ UNCHANGED <<qmQueue, qmAdmitted, qmRaised>>

(* a process_queue() task created by task_done runs *)
QM_process_queue_task ==
    /\ qmPending > 0
    /\ qmPending' = qmPending - 1
    /\ QM_install(QM_process_queue(QM_state))
    /\ UNCHANGED qmRaised

QMAddToQueue == (\E c \in 1..QM_MaxCoros : QM_add_to_queue(c)) /\ UNCHANGED <<cmVars, dmVars, tdVars, dbVars, btVars, dlVars, ptVars, rlVars, huVars, tqVars, dzVars, daVars, pdVars, tbVars>>
QMProcessQueueCall == QM_process_queue_call /\ UNCHANGED <<cmVars, dmVars, tdVars, dbVars, btVars, dlVars, ptVars, rlVars, huVars, tqVars, dzVars, daVars, pdVars, tbVars>>
QMTaskFinish == (\E c \in 1..QM_MaxCoros : QM_task_finish(c)) /\ UNCHANGED <<cmVars, dmVars, tdVars, dbVars, btVars, dlVars, ptVars, rlVars, huVars, tqVars, dzVars, daVars, pdVars, tbVars>>
QMTaskDone == (\E c \in 1..QM_MaxCoros : QM_task_done(c)) /\ UNCHANGED <<cmVars, dmVars, tdVars, dbVars, btVars, dlVars, ptVars, rlVars, huVars, tqVars, dzVars, daVars, pdVars, tbVars>>
QMProcessQueueTask == QM_process_queue_task /\ UNCHANGED <<cmVars, dmVars, tdVars, dbVars, btVars, dlVars, ptVars, rlVars, huVars, tqVars, dzVars, daVars, pdVars, tbVars>>

(* ============== utils/download_manager.py DownloadManager =============== *)
Requests == 1..DM_NumRequests
HttpStatus == {200, 401, 404, 503}

DMInit ==
    /\ dmSem = DM_MaxConcurrent
    /\ dmActiveDownloads = EmptyDict
    /\ dmPc = [r \in Requests |-> "new"]
    /\ dmCancelled = [r \in Requests |-> FALSE]
    /\ dmFileExists = [r \in Requests |-> FALSE]
    /\ dmWritten = [r \in Requests |-> 0]
    /\ dmAttempts = [r \in Requests |-> 0]
    /\ dmStatus = [r \in Requests |-> 0]
    /\ dmError = [r \in Requests |-> ""]
    /\ dmCancelAt = [r \in Requests |-> "none"]

DM_InFlight(r) == dmPc[r] \in {"waiting", "get", "streaming"}

(* where a cancellation request finds the download (history only) *)
DM_note_cancel(r) ==
    dmCancelAt' = [dmCancelAt EXCEPT ![r] =
                     IF @ /= "none" THEN @
                     ELSE IF dmPc[r] = "waiting" THEN "waiting"
                     ELSE IF dmPc[r] = "streaming" /\ dmWritten[r] = DM_NumChunks
                          THEN "after last chunk" ELSE "in transfer"]

(* download(request): `async with self.semaphore`, then _download_file up   *)
(* to session.get(request.url); with no permit free the call waits          *)
DM_download(r) ==
    /\ dmPc[r] = "new"
    /\ \A q \in 1..(r - 1) : dmPc[q] /= "new"
    /\ IF dmSem > 0
       THEN /\ dmSem' = dmSem - 1
            /\ dmPc' = [dmPc EXCEPT ![r] = "get"]
            /\ dmAttempts' = [dmAttempts EXCEPT ![r] = @ + 1]
       ELSE /\ dmPc' = [dmPc EXCEPT ![r] = "waiting"]
            /\ UNCHANGED <<dmSem, dmAttempts>>
    /\ UNCHANGED <<dmActiveDownloads, dmCancelled, dmFileExists, dmWritten,
                   dmStatus, dmError, dmCancelAt>>

(* a waiting download() gets a permit and runs _download_file up to         *)
(* session.get(request.url)                                                 *)
DM_acquire(r) ==
    /\ dmPc[r] = "waiting"
    /\ dmSem > 0
    /\ dmSem' = dmSem - 1
    /\ dmPc' = [dmPc EXCEPT ![r] = "get"]
    /\ dmAttempts' = [dmAttempts EXCEPT ![r] = @ + 1]
    /\ UNCHANGED <<dmActiveDownloads, dmCancelled, dmFileExists, dmWritten,
                   dmStatus, dmError, dmCancelAt>>

(* the exception leaves _download_file and download(): the permit is given  *)
(* back by `async with self.semaphore`                                      *)
(* the exception leaves without the permit being given back *)
DM_raise_keeps_permit(r, message) ==
    /\ dmPc' = [dmPc EXCEPT ![r] = "failed"]
    /\ dmError' = [dmError EXCEPT ![r] = message]
    /\ dmSem' = dmSem

(* an exception leaves _download_file and `async with self.semaphore`, which *)
(* releases the permit                                                       *)
DM_raise(r, message) ==
    /\ dmPc' = [dmPc EXCEPT ![r] = "failed"]
    /\ dmError' = [dmError EXCEPT ![r] = message]
    /\ dmSem' = dmSem + 1

DM_response_retry(r, status) ==
    /\ dmPc[r] = "get"
    /\ dmStatus' = [dmStatus EXCEPT ![r] = status]
    /\ IF status /= 200
       THEN /\ IF dmAttempts[r] < 3
               THEN /\ dmAttempts' = [dmAttempts EXCEPT ![r] = @ + 1]
                    /\ UNCHANGED <<dmPc, dmError, dmSem>>
               ELSE /\ DM_raise(r, "Download failed with status")
                    /\ UNCHANGED dmAttempts
            /\ UNCHANGED <<dmFileExists, dmWritten>>
       ELSE /\ dmPc' = [dmPc EXCEPT ![r] = "streaming"]
            /\ dmFileExists' = [dmFileExists EXCEPT ![r] = TRUE]
            /\ dmWritten' = [dmWritten EXCEPT ![r] = 0]
            /\ UNCHANGED <<dmSem, dmError, dmAttempts>>
    /\ UNCHANGED <<dmActiveDownloads, dmCancelled, dmCancelAt>>

(* the response arrives: status check, then open(output_path, 'wb') *)
DM_response(r, status) ==
    /\ dmPc[r] = "get"
    /\ dmStatus' = [dmStatus EXCEPT ![r] = status]
    /\ IF status /= 200
       THEN /\ DM_raise(r, "Download failed with status")
            /\ UNCHANGED <<dmFileExists, dmWritten>>
       ELSE /\ dmPc' = [dmPc EXCEPT ![r] = "streaming"]
            /\ dmFileExists' = [dmFileExists EXCEPT ![r] = TRUE]
            /\ dmWritten' = [dmWritten EXCEPT ![r] = 0]
            /\ UNCHANGED <<dmSem, dmError>>
    /\ UNCHANGED <<dmActiveDownloads, dmCancelled, dmAttempts, dmCancelAt>>

(* iter_chunked yields the next chunk: cancel check, f.write(chunk) *)
DM_chunk(r) ==
    /\ dmPc[r] = "streaming"
    /\ dmWritten[r] < DM_NumChunks
    /\ IF dmCancelled[r]
       THEN /\ DM_raise(r, "Download cancelled")
            /\ UNCHANGED dmWritten
       ELSE /\ dmWritten' = [dmWritten EXCEPT ![r] = @ + 1]
            /\ UNCHANGED <<dmPc, dmError, dmSem>>
    /\ UNCHANGED <<dmActiveDownloads, dmCancelled, dmFileExists, dmAttempts,
                   dmStatus, dmCancelAt>>

(* iter_chunked is exhausted: return str(output_path) *)
DM_eof(r) ==
    /\ dmPc[r] = "streaming"
    /\ dmWritten[r] = DM_NumChunks
    /\ dmPc' = [dmPc EXCEPT ![r] = "returned"]
    /\ dmSem' = dmSem + 1
    /\ UNCHANGED <<dmActiveDownloads, dmCancelled, dmFileExists, dmWritten,
                   dmAttempts, dmStatus, dmError, dmCancelAt>>

(* session.get or a chunk read raises (connection reset, timeout) *)
DM_network_error(r) ==
    /\ dmPc[r] \in {"get", "streaming"}
    /\ DM_raise(r, "ClientError")
    /\ UNCHANGED <<dmActiveDownloads, dmCancelled, dmFileExists, dmWritten,
                   dmAttempts, dmStatus, dmCancelAt>>

(* cancel_download(download_id) *)
DM_cancel_download(download_id) ==
    /\ DM_InFlight(download_id)
    /\ dmCancelAt[download_id] = "none"
    /\ dmCancelled' = IF download_id \in DOMAIN dmActiveDownloads
                      THEN [dmCancelled EXCEPT ![download_id] = TRUE]
                      ELSE dmCancelled
    /\ DM_note_cancel(download_id)
    /\ UNCHANGED <<dmSem, dmActiveDownloads, dmPc, dmFileExists, dmWritten,
                   dmAttempts, dmStatus, dmError>>

(* the owner of the request sets request.cancelled = True itself *)
DM_set_cancelled(r) ==
    /\ DM_InFlight(r)
    /\ ~dmCancelled[r]
    /\ dmCancelled' = [dmCancelled EXCEPT ![r] = TRUE]
    /\ DM_note_cancel(r)
    /\ UNCHANGED <<dmSem, dmActiveDownloads, dmPc, dmFileExists, dmWritten,
                   dmAttempts, dmStatus, dmError>>

DMDownload == (\E r \in Requests : DM_download(r)) /\ UNCHANGED <<cmVars, qmVars, tdVars, dbVars, btVars, dlVars, ptVars, rlVars, huVars, tqVars, dzVars, daVars, pdVars, tbVars>>
DMAcquire == (\E r \in Requests : DM_acquire(r)) /\ UNCHANGED <<cmVars, qmVars, tdVars, dbVars, btVars, dlVars, ptVars, rlVars, huVars, tqVars, dzVars, daVars, pdVars, tbVars>>
DMResponse ==
    (\E r \in Requests, status \in HttpStatus : DM_response(r, status))
    /\ UNCHANGED <<cmVars, qmVars, tdVars, dbVars, btVars, dlVars, ptVars, rlVars, huVars, tqVars, dzVars, daVars, pdVars, tbVars>>
DMChunk == (\E r \in Requests : DM_chunk(r)) /\ UNCHANGED <<cmVars, qmVars, tdVars, dbVars, btVars, dlVars, ptVars, rlVars, huVars, tqVars, dzVars, daVars, pdVars, tbVars>>
DMEof == (\E r \in Requests : DM_eof(r)) /\ UNCHANGED <<cmVars, qmVars, tdVars, dbVars, btVars, dlVars, ptVars, rlVars, huVars, tqVars, dzVars, daVars, pdVars, tbVars>>
DMNetworkError == (\E r \in Requests : DM_network_error(r)) /\ UNCHANGED <<cmVars, qmVars, tdVars, dbVars, btVars, dlVars, ptVars, rlVars, huVars, tqVars, dzVars, daVars, pdVars, tbVars>>
DMCancelDownload == (\E r \in Requests : DM_cancel_download(r)) /\ UNCHANGED <<cmVars, qmVars, tdVars, dbVars, btVars, dlVars, ptVars, rlVars, huVars, tqVars, dzVars, daVars, pdVars, tbVars>>
DMSetCancelled == (\E r \in Requests : DM_set_cancelled(r)) /\ UNCHANGED <<cmVars, qmVars, tdVars, dbVars, btVars, dlVars, ptVars, rlVars, huVars, tqVars, dzVars, daVars, pdVars, tbVars>>

(* =========== music_downloader.py TidalDownloader.download_track ========= *)
TDInit ==
    /\ tdPc = "idle"
    /\ tdError = ""
    /\ tdCalls = [get_track_info |-> 0, get_download_url |-> 0, download_file |-> 0]
    /\ tdFile = "absent"

TD_raise(error) ==
    /\ tdPc' = "raised"
    /\ tdError' = error

(* download_track(url, quality): get_track_info sends its request *)
TD_download_track ==
    /\ tdPc = "idle"
    /\ tdPc' = "get_track_info"
    /\ tdCalls' = [tdCalls EXCEPT !.get_track_info = @ + 1]
    /\ UNCHANGED <<tdError, tdFile>>

(* get_track_info: 200 gives the TrackInfo and get_download_url sends its   *)
(* request, any other status raises InvalidURLError                         *)
TD_get_track_info(status) ==
    /\ tdPc = "get_track_info"
    /\ IF status = 200
       THEN /\ tdPc' = "get_download_url"
            /\ tdCalls' = [tdCalls EXCEPT !.get_download_url = @ + 1]
            /\ UNCHANGED tdError
       ELSE /\ TD_raise("InvalidURLError")
            /\ UNCHANGED tdCalls
    /\ UNCHANGED tdFile

(* get_download_url: 200 gives the url and download_file sends its request, *)
(* any other status raises QualityNotAvailableError                         *)
TD_get_download_url(status) ==
    /\ tdPc = "get_download_url"
    /\ IF status = 200
       THEN /\ tdPc' = "download_file"
            /\ tdCalls' = [tdCalls EXCEPT !.download_file = @ + 1]
            /\ UNCHANGED tdError
       ELSE /\ TD_raise("QualityNotAvailableError")
            /\ UNCHANGED tdCalls
    /\ UNCHANGED tdFile

(* download_file: 200 opens filepath for writing, any other status raises   *)
(* DownloadError                                                            *)
TD_download_file(status) ==
    /\ tdPc = "download_file"
    /\ IF status = 200
       THEN /\ tdPc' = "write"
            /\ tdFile' = "empty"
            /\ UNCHANGED tdError
       ELSE /\ TD_raise("DownloadError")
            /\ UNCHANGED tdFile
    /\ UNCHANGED tdCalls

(* the body is read and written (or the read raises), then                  *)
(* Tagger.tag_file(filepath, track_info) tags the file (or raises)          *)
TD_write_and_tag(read_ok, tag_ok) ==
    /\ tdPc = "write"
    /\ IF ~read_ok
       THEN /\ TD_raise("ClientError")
            /\ UNCHANGED tdFile
       ELSE IF ~tag_ok
            THEN /\ TD_raise("MutagenError")
                 /\ tdFile' = "written"
            ELSE /\ tdPc' = "returned"
                 /\ tdFile' = "tagged"
                 /\ UNCHANGED tdError
    /\ UNCHANGED tdCalls

TDDownloadTrack == TD_download_track /\ UNCHANGED <<cmVars, qmVars, dmVars, dbVars, btVars, dlVars, ptVars, rlVars, huVars, tqVars, dzVars, daVars, pdVars, tbVars>>
TDGetTrackInfo ==
    (\E status \in HttpStatus : TD_get_track_info(status))
    /\ UNCHANGED <<cmVars, qmVars, dmVars, dbVars, btVars, dlVars, ptVars, rlVars, huVars, tqVars, dzVars, daVars, pdVars, tbVars>>
TDGetDownloadUrl ==
    (\E status \in HttpStatus : TD_get_download_url(status))
    /\ UNCHANGED <<cmVars, qmVars, dmVars, dbVars, btVars, dlVars, ptVars, rlVars, huVars, tqVars, dzVars, daVars, pdVars, tbVars>>
TDDownloadFile ==
    (\E status \in HttpStatus : TD_download_file(status))
    /\ UNCHANGED <<cmVars, qmVars, dmVars, dbVars, btVars, dlVars, ptVars, rlVars, huVars, tqVars, dzVars, daVars, pdVars, tbVars>>
TDWriteAndTag ==
    (\E read_ok \in BOOLEAN, tag_ok \in BOOLEAN : TD_write_and_tag(read_ok, tag_ok))
    /\ UNCHANGED <<cmVars, qmVars, dmVars, dbVars, btVars, dlVars, ptVars, rlVars, huVars, tqVars, dzVars, daVars, pdVars, tbVars>>

(* ================= utils/db_manager.py DatabaseManager ================== *)
DBInit == dbDownloads = <<>>

(* add_download(...): INSERT ... status 'pending'; returns cursor.lastrowid *)
DB_add_download(user_id, file_url, format, quality) ==
    /\ Len(dbDownloads) < DB_MaxRows
    /\ dbDownloads' = Append(dbDownloads,
           [user_id |-> user_id, file_url |-> file_url, format |-> format,
            quality |-> quality, status |-> PENDING,
            completed_at |-> FALSE, error_message |-> FALSE])

(* update_download_status(download_id, status, error_message) *)
DB_update_download_status(download_id, status, error_message) ==
    /\ download_id \in DOMAIN dbDownloads
    /\ dbDownloads' =
         IF status = COMPLETED
         THEN [dbDownloads EXCEPT ![download_id].status = status,
                                  ![download_id].completed_at = TRUE]
         ELSE [dbDownloads EXCEPT ![download_id].status = status,
                                  ![download_id].error_message = error_message]

DBAddDownload ==
    /\ \E u \in Users, f \in Urls, fmt \in Formats, q \in Qualities :
           DB_add_download(u, f, fmt, q)
    /\ UNCHANGED <<cmVars, qmVars, dmVars, tdVars, btVars, dlVars, ptVars, rlVars, huVars, tqVars, dzVars, daVars, pdVars, tbVars>>
DBUpdateDownloadStatus ==
    /\ \E id \in 1..DB_MaxRows, st \in DownloadStatus, err \in BOOLEAN :
           DB_update_download_status(id, st, err)
    /\ UNCHANGED <<cmVars, qmVars, dmVars, tdVars, btVars, dlVars, ptVars, rlVars, huVars, tqVars, dzVars, daVars, pdVars, tbVars>>

(* ===== service_handlers/batch_handler.py and tidal_handler.py =========== *)
BatchUrls == 1..BT_NumUrls
AlbumTracks == 1..AL_NumTracks

BTInit ==
    /\ btGather = "idle"
    /\ btTask = [k \in BatchUrls |-> "none"]
    /\ alPc = "idle"
    /\ alTrack = [i \in AlbumTracks |-> "pending"]

(* batch_download(urls): a download_single task per url, then gather *)
BT_batch_download ==
    /\ btGather = "idle"
    /\ btTask' = [k \in BatchUrls |-> "created"]
    /\ btGather' = "gather"
    /\ UNCHANGED <<alPc, alTrack>>

(* download_single of url 1 (an album): download_album, get_album_info *)
AL_download_album ==
    /\ btTask[1] = "created"
    /\ btTask' = [btTask EXCEPT ![1] = "running"]
    /\ alPc' = "get_album_info"
    /\ UNCHANGED <<btGather, alTrack>>

(* get_album_info returns or raises; the except clause logs and re-raises *)
AL_album_info(ok) ==
    /\ alPc = "get_album_info"
    /\ IF ok
       THEN /\ alPc' = "tracks"
            /\ UNCHANGED btTask
       ELSE /\ alPc' = "raised"
            /\ btTask' = [btTask EXCEPT ![1] = "raised"]
    /\ UNCHANGED <<btGather, alTrack>>

(* the loop over album_info.tracks calls download_track(track_id) *)
AL_track_begin(i) ==
    /\ alPc = "tracks"
    /\ alTrack[i] = "pending"
    /\ \A j \in 1..(i - 1) : alTrack[j] = "success"
    /\ alTrack' = [alTrack EXCEPT ![i] = "downloading"]
    /\ UNCHANGED <<btGather, btTask, alPc>>

(* download_track returns its result or raises; an exception leaves the     *)
(* loop and download_album (logged and re-raised)                           *)
AL_track_end(i, ok) ==
    /\ alPc = "tracks"
    /\ alTrack[i] = "downloading"
    /\ IF ok
       THEN /\ alTrack' = [alTrack EXCEPT ![i] = "success"]
            /\ IF i = AL_NumTracks
               THEN /\ alPc' = "returned"
                    /\ btTask' = [btTask EXCEPT ![1] = "done"]
               ELSE UNCHANGED <<alPc, btTask>>
       ELSE /\ alTrack' = [alTrack EXCEPT ![i] = "raised"]
            /\ alPc' = "raised"
            /\ btTask' = [btTask EXCEPT ![1] = "raised"]
    /\ UNCHANGED btGather

(* download_single of another url (a track): download_track(info['id']) *)
BT_single_begin(k) ==
    /\ k /= 1
    /\ btTask[k] = "created"
    /\ btTask' = [btTask EXCEPT ![k] = "running"]
    /\ UNCHANGED <<btGather, alPc, alTrack>>

BT_single_end(k, ok) ==
    /\ k /= 1
    /\ btTask[k] = "running"
    /\ btTask' = [btTask EXCEPT ![k] = IF ok THEN "done" ELSE "raised"]
    /\ UNCHANGED <<btGather, alPc, alTrack>>

(* asyncio.gather over the tasks: raises the first exception of a task (the other  *)
(* tasks keep running), returns when every task is done                     *)
BT_gather_raises ==
    /\ btGather = "gather"
    /\ \E k \in BatchUrls : btTask[k] = "raised"
    /\ btGather' = "raised"
    /\ UNCHANGED <<btTask, alPc, alTrack>>

BT_gather_returns ==
    /\ btGather = "gather"
    /\ \A k \in BatchUrls : btTask[k] = "done"
    /\ btGather' = "returned"
    /\ UNCHANGED <<btTask, alPc, alTrack>>

BTBatchDownload == BT_batch_download /\ UNCHANGED <<cmVars, qmVars, dmVars, tdVars, dbVars, dlVars, ptVars, rlVars, huVars, tqVars, dzVars, daVars, pdVars, tbVars>>
ALDownloadAlbum == AL_download_album /\ UNCHANGED <<cmVars, qmVars, dmVars, tdVars, dbVars, dlVars, ptVars, rlVars, huVars, tqVars, dzVars, daVars, pdVars, tbVars>>
ALAlbumInfo == (\E ok \in BOOLEAN : AL_album_info(ok)) /\ UNCHANGED <<cmVars, qmVars, dmVars, tdVars, dbVars, dlVars, ptVars, rlVars, huVars, tqVars, dzVars, daVars, pdVars, tbVars>>
ALTrackBegin == (\E i \in AlbumTracks : AL_track_begin(i)) /\ UNCHANGED <<cmVars, qmVars, dmVars, tdVars, dbVars, dlVars, ptVars, rlVars, huVars, tqVars, dzVars, daVars, pdVars, tbVars>>
ALTrackEnd ==
    (\E i \in AlbumTracks, ok \in BOOLEAN : AL_track_end(i, ok))
    /\ UNCHANGED <<cmVars, qmVars, dmVars, tdVars, dbVars, dlVars, ptVars, rlVars, huVars, tqVars, dzVars, daVars, pdVars, tbVars>>
BTSingleBegin == (\E k \in BatchUrls : BT_single_begin(k)) /\ UNCHANGED <<cmVars, qmVars, dmVars, tdVars, dbVars, dlVars, ptVars, rlVars, huVars, tqVars, dzVars, daVars, pdVars, tbVars>>
BTSingleEnd ==
    (\E k \in BatchUrls, ok \in BOOLEAN : BT_single_end(k, ok))
    /\ UNCHANGED <<cmVars, qmVars, dmVars, tdVars, dbVars, dlVars, ptVars, rlVars, huVars, tqVars, dzVars, daVars, pdVars, tbVars>>
BTGatherRaises == BT_gather_raises /\ UNCHANGED <<cmVars, qmVars, dmVars, tdVars, dbVars, dlVars, ptVars, rlVars, huVars, tqVars, dzVars, daVars, pdVars, tbVars>>
BTGatherReturns == BT_gather_returns /\ UNCHANGED <<cmVars, qmVars, dmVars, tdVars, dbVars, dlVars, ptVars, rlVars, huVars, tqVars, dzVars, daVars, pdVars, tbVars>>

(* ===================== utils/downloader.py Downloader ==================== *)
Downloads == 1..DL_NumDownloads
Filenames == {"a.flac", "b.flac"}

DLInit ==
    /\ dlName = [d \in Downloads |-> ""]
    /\ dlPc = [d \in Downloads |-> "new"]
    /\ dlMustCancel = [d \in Downloads |-> FALSE]
    /\ dlCount = [d \in Downloads |-> 0]
    /\ dlTasks = [f \in {} |-> 0]
    /\ dlFile = [f \in {} |-> 0]

(* download(url, filename, total_size): create the task, store it under the *)
(* filename, await it                                                       *)
DL_download(d, filename) ==
    /\ dlPc[d] = "new"
    /\ \A e \in 1..(d - 1) : dlPc[e] /= "new"
    /\ dlName' = [dlName EXCEPT ![d] = filename]
    /\ dlPc' = [dlPc EXCEPT ![d] = "created"]
    /\ dlTasks' = DictSet(dlTasks, filename, d)
    /\ UNCHANGED <<dlMustCancel, dlCount, dlFile>>

(* _download starts: ProgressBar, ClientSession, session.get(url) is sent *)
DL_start(d) ==
    /\ dlPc[d] = "created"
    /\ ~dlMustCancel[d]
    /\ dlPc' = [dlPc EXCEPT ![d] = "get"]
    /\ UNCHANGED <<dlName, dlMustCancel, dlCount, dlTasks, dlFile>>

(* the response arrives: open(filename, 'wb') creates or truncates the file *)
DL_response(d) ==
    /\ dlPc[d] = "get"
    /\ ~dlMustCancel[d]
    /\ dlPc' = [dlPc EXCEPT ![d] = "streaming"]
    /\ dlFile' = DictSet(dlFile, dlName[d], 0)
    /\ UNCHANGED <<dlName, dlMustCancel, dlCount, dlTasks>>

(* the next chunk arrives: current_task().cancelled() is False in a running *)
(* task, so the chunk is written and progress.update is awaited             *)
DL_chunk(d) ==
    /\ dlPc[d] = "streaming"
    /\ ~dlMustCancel[d]
    /\ dlCount[d] < DM_NumChunks
    /\ dlCount' = [dlCount EXCEPT ![d] = @ + 1]
    /\ dlFile' = DictSet(dlFile, dlName[d], dlFile[dlName[d]] + 1)
    /\ UNCHANGED <<dlName, dlPc, dlMustCancel, dlTasks>>

(* the body is exhausted: the file is closed, progress.close() *)
DL_eof(d) ==
    /\ dlPc[d] = "streaming"
    /\ ~dlMustCancel[d]
    /\ dlCount[d] = DM_NumChunks
    /\ dlPc' = [dlPc EXCEPT ![d] = "done"]
    /\ UNCHANGED <<dlName, dlMustCancel, dlCount, dlTasks, dlFile>>

(* cancel_download(filename): self.tasks[filename].cancel() *)
DL_cancel_download(filename) ==
    /\ filename \in DOMAIN dlTasks
    /\ dlPc[dlTasks[filename]] \in {"created", "get", "streaming"}
    /\ ~dlMustCancel[dlTasks[filename]]
    /\ dlMustCancel' = [dlMustCancel EXCEPT ![dlTasks[filename]] = TRUE]
    /\ UNCHANGED <<dlName, dlPc, dlCount, dlTasks, dlFile>>

(* the cancelled task is resumed with CancelledError at the await it is     *)
(* suspended in (a task that has not started yet never runs); the `with`    *)
(* blocks close the session and the file, nothing is removed                *)
DL_cancelled(d) ==
    /\ dlPc[d] \in {"created", "get", "streaming"}
    /\ dlMustCancel[d]
    /\ dlPc' = [dlPc EXCEPT ![d] = "cancelled"]
    /\ UNCHANGED <<dlName, dlMustCancel, dlCount, dlTasks, dlFile>>

DLDownload ==
    (\E d \in Downloads, f \in Filenames : DL_download(d, f))
    /\ UNCHANGED <<cmVars, qmVars, dmVars, tdVars, dbVars, btVars, ptVars, rlVars, huVars, tqVars, dzVars, daVars, pdVars, tbVars>>
DLStart == (\E d \in Downloads : DL_start(d)) /\ UNCHANGED <<cmVars, qmVars, dmVars, tdVars, dbVars, btVars, ptVars, rlVars, huVars, tqVars, dzVars, daVars, pdVars, tbVars>>
DLResponse == (\E d \in Downloads : DL_response(d)) /\ UNCHANGED <<cmVars, qmVars, dmVars, tdVars, dbVars, btVars, ptVars, rlVars, huVars, tqVars, dzVars, daVars, pdVars, tbVars>>
DLChunk == (\E d \in Downloads : DL_chunk(d)) /\ UNCHANGED <<cmVars, qmVars, dmVars, tdVars, dbVars, btVars, ptVars, rlVars, huVars, tqVars, dzVars, daVars, pdVars, tbVars>>
DLEof == (\E d \in Downloads : DL_eof(d)) /\ UNCHANGED <<cmVars, qmVars, dmVars, tdVars, dbVars, btVars, ptVars, rlVars, huVars, tqVars, dzVars, daVars, pdVars, tbVars>>
DLCancelDownload ==
    (\E f \in Filenames : DL_cancel_download(f))
    /\ UNCHANGED <<cmVars, qmVars, dmVars, tdVars, dbVars, btVars, ptVars, rlVars, huVars, tqVars, dzVars, daVars, pdVars, tbVars>>
DLCancelled == (\E d \in Downloads : DL_cancelled(d)) /\ UNCHANGED <<cmVars, qmVars, dmVars, tdVars, dbVars, btVars, ptVars, rlVars, huVars, tqVars, dzVars, daVars, pdVars, tbVars>>

(* ================== utils/progress.py ProgressTracker =================== *)
(* One download (_download_file lines 32-45) whose progress_callback is the *)
(* update_progress of its own tracker.  A chunk is one unit of size.        *)
PTInit ==
    /\ ptNow = 0
    /\ ptLastUpdateTime = 0
    /\ ptPc = "get"
    /\ ptTotal = 0
    /\ ptDownloaded = 0
    /\ ptEdits = <<>>
    /\ ptError = ""

PT_throttled_1s(now, last_update_time) == now - last_update_time < 1

(* `if now - self.last_update_time < 2: return` *)
PT_throttled(now, last_update_time) == now - last_update_time < 2

(* update_progress(current, total); edit_ok: edit_text does not raise (an   *)
(* exception of edit_text is swallowed by the try block of lines 30-36).    *)
(* pc is where the caller goes on when update_progress returns.             *)
PT_update_progress(current, total, edit_ok, pc) ==
    IF PT_throttled(ptNow, ptLastUpdateTime)
    THEN /\ ptPc' = pc
         /\ UNCHANGED <<ptLastUpdateTime, ptEdits, ptError>>
    ELSE /\ ptLastUpdateTime' = ptNow
         /\ IF total = 0
            THEN \* percentage = current * 100 / total
                 /\ ptPc' = "failed"
                 /\ ptError' = "ZeroDivisionError"
                 /\ UNCHANGED ptEdits
            ELSE /\ ptPc' = pc
                 /\ ptEdits' = IF edit_ok
                               THEN Append(ptEdits, [time |-> ptNow, current |-> current,
                                                     total |-> total])
                               ELSE ptEdits
                 /\ UNCHANGED ptError

(* the response arrives: total_size = int(headers.get('content-length', 0)) *)
PT_response(content_length) ==
    /\ ptPc = "get"
    /\ ptPc' = "streaming"
    /\ ptTotal' = content_length
    /\ UNCHANGED <<ptNow, ptLastUpdateTime, ptDownloaded, ptEdits, ptError>>

(* one turn of the chunk loop: write, downloaded += len(chunk), callback *)
PT_chunk(edit_ok) ==
    /\ ptPc = "streaming"
    /\ ptDownloaded < PT_NumChunks
    /\ ptDownloaded' = ptDownloaded + 1
    /\ PT_update_progress(ptDownloaded + 1, ptTotal, edit_ok, "streaming")
    /\ UNCHANGED <<ptNow, ptTotal>>

(* the body is exhausted: _download_file returns *)
PT_eof ==
    /\ ptPc = "streaming"
    /\ ptDownloaded = PT_NumChunks
    /\ ptPc' = "returned"
    /\ UNCHANGED <<ptNow, ptLastUpdateTime, ptTotal, ptDownloaded, ptEdits, ptError>>

(* a second passes on the clock of the event loop *)
PT_tick ==
    /\ ptNow < PT_MaxTime
    /\ ptNow' = ptNow + 1
    /\ UNCHANGED <<ptLastUpdateTime, ptPc, ptTotal, ptDownloaded, ptEdits, ptError>>

PTResponse == (\E content_length \in {0, PT_NumChunks} : PT_response(content_length)) /\ UNCHANGED <<cmVars, qmVars, dmVars, tdVars, dbVars, btVars, dlVars, rlVars, huVars, tqVars, dzVars, daVars, pdVars, tbVars>>
PTChunk == (\E edit_ok \in BOOLEAN : PT_chunk(edit_ok)) /\ UNCHANGED <<cmVars, qmVars, dmVars, tdVars, dbVars, btVars, dlVars, rlVars, huVars, tqVars, dzVars, daVars, pdVars, tbVars>>
PTEof == PT_eof /\ UNCHANGED <<cmVars, qmVars, dmVars, tdVars, dbVars, btVars, dlVars, rlVars, huVars, tqVars, dzVars, daVars, pdVars, tbVars>>
PTTick == PT_tick /\ UNCHANGED <<cmVars, qmVars, dmVars, tdVars, dbVars, btVars, dlVars, rlVars, huVars, tqVars, dzVars, daVars, pdVars, tbVars>>
(* ================== utils/rate_limiter.py RateLimiter =================== *)
RL_Users == 1..RL_NumUsers

RLInit ==
    /\ rlPc = "none"
    /\ rl_max_requests = 0
    /\ rl_time_window = 0
    /\ rlRequests = EmptyDict
    /\ rlNow = 0
    /\ rlResult = [user |-> 0, time |-> 0, allowed |-> FALSE, wait_time |-> 0, error |-> ""]
    /\ rlGranted = [u \in RL_Users |-> <<>>]
    /\ rlReset = {}
    /\ rlCalls = 0

(* RateLimiter(max_requests, time_window) *)
RL_init(max_requests, time_window) ==
    /\ rlPc = "none"
    /\ rlPc' = "ready"
    /\ rl_max_requests' = max_requests
    /\ rl_time_window' = time_window
    /\ UNCHANGED <<rlRequests, rlNow, rlResult, rlGranted, rlReset, rlCalls>>

(* self.requests[user_id] of a defaultdict(list) *)
RL_get(requests, user_id) ==
    IF user_id \in DOMAIN requests THEN requests[user_id] ELSE <<>>

(* the same filter with a request that is exactly time_window old kept *)
RL_recent_le(user_requests, current_time, time_window) ==
    SelectSeq(user_requests, LAMBDA req_time : current_time - req_time <= time_window)

(* [req_time for req_time in user_requests if current_time - req_time < w] *)
RL_recent(user_requests, current_time, time_window) ==
    SelectSeq(user_requests, LAMBDA req_time : current_time - req_time < time_window)

RL_over_limit_gt(n, max_requests) == n > max_requests

(* `if len(user_requests) >= self.max_requests` *)
RL_over_limit(n, max_requests) == n >= max_requests

(* can_proceed(user_id) at time.time() = rlNow *)
RL_can_proceed(user_id) ==
    LET current_time == rlNow
        user_requests == RL_recent(RL_get(rlRequests, user_id), current_time,
                                   rl_time_window)
    IN /\ rlPc = "ready"
       /\ rlCalls < RL_MaxCalls
       /\ rlCalls' = rlCalls + 1
       /\ IF RL_over_limit(Len(user_requests), rl_max_requests)
          THEN /\ rlRequests' = DictSet(rlRequests, user_id, user_requests)
               /\ rlResult' =
                    IF user_requests = <<>>
                    THEN \* user_requests[0] of an empty list
                         [user |-> user_id, time |-> rlNow, allowed |-> FALSE, wait_time |-> 0,
                          error |-> "IndexError"]
                    ELSE [user |-> user_id, time |-> rlNow, allowed |-> FALSE,
                          wait_time |-> user_requests[1] + rl_time_window - current_time,
                          error |-> ""]
               /\ UNCHANGED rlGranted
          ELSE /\ rlRequests' = DictSet(rlRequests, user_id,
                                        Append(user_requests, current_time))
               /\ rlResult' = [user |-> user_id, time |-> rlNow, allowed |-> TRUE, wait_time |-> 0,
                               error |-> ""]
               /\ rlGranted' = [rlGranted EXCEPT ![user_id] = Append(@, current_time)]
       /\ UNCHANGED <<rlPc, rl_max_requests, rl_time_window, rlNow, rlReset>>

RL_reset_all(user_id) ==
    /\ rlPc = "ready"
    /\ user_id \in DOMAIN rlRequests
    /\ rlRequests' = EmptyDict
    /\ rlResult' = [user |-> user_id, time |-> rlNow, allowed |-> FALSE, wait_time |-> 0,
                    error |-> "reset"]
    /\ rlReset' = rlReset \cup {user_id}
    /\ UNCHANGED <<rlPc, rl_max_requests, rl_time_window, rlNow, rlGranted, rlCalls>>

(* reset_user(user_id): `if user_id in self.requests: del ...` *)
RL_reset_user(user_id) ==
    /\ rlPc = "ready"
    /\ user_id \in DOMAIN rlRequests
    /\ rlRequests' = DictDel(rlRequests, user_id)
    /\ rlResult' = [user |-> user_id, time |-> rlNow, allowed |-> FALSE, wait_time |-> 0,
                    error |-> "reset"]
    /\ rlReset' = rlReset \cup {user_id}
    /\ UNCHANGED <<rlPc, rl_max_requests, rl_time_window, rlNow, rlGranted, rlCalls>>

(* time.time() moves on by a second *)
RL_tick ==
    /\ rlPc = "ready"
    /\ rlNow < RL_MaxTime
    /\ rlNow' = rlNow + 1
    /\ UNCHANGED <<rlPc, rl_max_requests, rl_time_window, rlRequests, rlResult,
                   rlGranted, rlReset, rlCalls>>

(* User ids are interchangeable: a caller is a user seen before or the     *)
(* least id not seen yet.                                                   *)
RL_Seen == (DOMAIN rlRequests) \cup rlReset

RLNew == (\E k \in 0..RL_MaxLimit, w \in 1..RL_MaxWindow : RL_init(k, w)) /\ UNCHANGED <<cmVars, qmVars, dmVars, tdVars, dbVars, btVars, dlVars, ptVars, huVars, tqVars, dzVars, daVars, pdVars, tbVars>>
RLCanProceed == (\E u \in RL_Users : u <= Cardinality(RL_Seen) + 1 /\ RL_can_proceed(u)) /\ UNCHANGED <<cmVars, qmVars, dmVars, tdVars, dbVars, btVars, dlVars, ptVars, huVars, tqVars, dzVars, daVars, pdVars, tbVars>>
RLResetUser == (\E u \in RL_Users : RL_reset_user(u)) /\ UNCHANGED <<cmVars, qmVars, dmVars, tdVars, dbVars, btVars, dlVars, ptVars, huVars, tqVars, dzVars, daVars, pdVars, tbVars>>
RLTick == RL_tick /\ UNCHANGED <<cmVars, qmVars, dmVars, tdVars, dbVars, btVars, dlVars, ptVars, huVars, tqVars, dzVars, daVars, pdVars, tbVars>>
(* ===================== utils/url_parser.py URLParser ===================== *)
(* Strings are sequences of one-character strings, so that strip, prefix,   *)
(* substring and pattern search are computed on the characters.             *)
(* The urls given to the parser, as sequences of characters. *)
(* "https://tidal.com/browse/track/12345678" *)
U_tidal_track ==
    <<"h", "t", "t", "p", "s", ":", "/", "/", "t", "i", "d", "a", "l", ".",
      "c", "o", "m", "/", "b", "r", "o", "w", "s", "e", "/", "t", "r", "a",
      "c", "k", "/", "1", "2", "3", "4", "5", "6", "7", "8">>

(* "https://deezer.com/en/album/999" *)
U_deezer_album ==
    <<"h", "t", "t", "p", "s", ":", "/", "/", "d", "e", "e", "z", "e", "r",
      ".", "c", "o", "m", "/", "e", "n", "/", "a", "l", "b", "u", "m", "/",
      "9", "9", "9">>

(* "https://invalid-url.com/track/1" *)
U_invalid_host ==
    <<"h", "t", "t", "p", "s", ":", "/", "/", "i", "n", "v", "a", "l", "i",
      "d", "-", "u", "r", "l", ".", "c", "o", "m", "/", "t", "r", "a", "c",
      "k", "/", "1">>

(* "listen.tidal.com/album/87" *)
U_no_scheme ==
    <<"l", "i", "s", "t", "e", "n", ".", "t", "i", "d", "a", "l", ".", "c",
      "o", "m", "/", "a", "l", "b", "u", "m", "/", "8", "7">>

(* "https://tidal.com.example.org/track/1" *)
U_host_contains ==
    <<"h", "t", "t", "p", "s", ":", "/", "/", "t", "i", "d", "a", "l", ".",
      "c", "o", "m", ".", "e", "x", "a", "m", "p", "l", "e", ".", "o", "r",
      "g", "/", "t", "r", "a", "c", "k", "/", "1">>

(* "https://play.qobuz.com/artist/x" *)
U_bad_path ==
    <<"h", "t", "t", "p", "s", ":", "/", "/", "p", "l", "a", "y", ".", "q",
      "o", "b", "u", "z", ".", "c", "o", "m", "/", "a", "r", "t", "i", "s",
      "t", "/", "x">>

(* "" *)
U_empty ==
    <<>>

(* " https://www.deezer.com/playlist/5 " *)
U_spaces ==
    <<" ", "h", "t", "t", "p", "s", ":", "/", "/", "w", "w", "w", ".", "d",
      "e", "e", "z", "e", "r", ".", "c", "o", "m", "/", "p", "l", "a", "y",
      "l", "i", "s", "t", "/", "5", " ">>

(* "https://" *)
U_no_host ==
    <<"h", "t", "t", "p", "s", ":", "/", "/">>

(* "https://t.co/abcd" *)
U_short ==
    <<"h", "t", "t", "p", "s", ":", "/", "/", "t", ".", "c", "o", "/", "a",
      "b", "c", "d">>

(* "https://tidal.com/album/1/track/2" *)
U_two_types ==
    <<"h", "t", "t", "p", "s", ":", "/", "/", "t", "i", "d", "a", "l", ".",
      "c", "o", "m", "/", "a", "l", "b", "u", "m", "/", "1", "/", "t", "r",
      "a", "c", "k", "/", "2">>

(* "https://Tidal.COM/playlist/ab-1" *)
U_upper_host ==
    <<"h", "t", "t", "p", "s", ":", "/", "/", "T", "i", "d", "a", "l", ".",
      "C", "O", "M", "/", "p", "l", "a", "y", "l", "i", "s", "t", "/", "a",
      "b", "-", "1">>

(* "https://qobuz.com/track/12?x=/album/3" *)
U_query ==
    <<"h", "t", "t", "p", "s", ":", "/", "/", "q", "o", "b", "u", "z", ".",
      "c", "o", "m", "/", "t", "r", "a", "c", "k", "/", "1", "2", "?", "x",
      "=", "/", "a", "l", "b", "u", "m", "/", "3">>

UrlInputs ==
    {U_tidal_track,
     U_deezer_album,
     U_invalid_host,
     U_no_scheme,
     U_host_contains,
     U_bad_path,
     U_empty,
     U_spaces,
     U_no_host,
     U_short,
     U_two_types,
     U_upper_host,
     U_query}

S_http == <<"h", "t", "t", "p", ":", "/", "/">>
S_https == <<"h", "t", "t", "p", "s", ":", "/", "/">>
D_tidal == <<"t", "i", "d", "a", "l", ".", "c", "o", "m">>
D_listen_tidal == <<"l", "i", "s", "t", "e", "n", ".", "t", "i", "d", "a", "l", ".", "c", "o", "m">>
D_qobuz == <<"q", "o", "b", "u", "z", ".", "c", "o", "m">>
D_play_qobuz == <<"p", "l", "a", "y", ".", "q", "o", "b", "u", "z", ".", "c", "o", "m">>
D_open_qobuz == <<"o", "p", "e", "n", ".", "q", "o", "b", "u", "z", ".", "c", "o", "m">>
D_deezer == <<"d", "e", "e", "z", "e", "r", ".", "c", "o", "m">>
D_deezer_page == <<"d", "e", "e", "z", "e", "r", ".", "p", "a", "g", "e", ".", "l", "i", "n", "k">>
P_track == <<"/", "t", "r", "a", "c", "k", "/">>
P_album == <<"/", "a", "l", "b", "u", "m", "/">>
P_playlist == <<"/", "p", "l", "a", "y", "l", "i", "s", "t", "/">>
P_artist == <<"/", "a", "r", "t", "i", "s", "t", "/">>
SH_tidal == <<"t", ".", "c", "o", "/">>
SH_qobuz == <<"q", "b", "z", ".", "f", "m", "/">>
SH_deezer == <<"d", "e", "e", "z", "e", "r", ".", "p", "a", "g", "e", ".", "l", "i", "n", "k", "/">>

Digits == {"0", "1", "2", "3", "4", "5", "6", "7", "8", "9"}
LowerLetters == {"a", "b", "c", "d", "e", "f", "g", "h", "i", "j", "k", "l", "m",
                 "n", "o", "p", "q", "r", "s", "t", "u", "v", "w", "x", "y", "z"}
UpperOf == [c \in LowerLetters |->
              CASE c = "a" -> "A" [] c = "b" -> "B" [] c = "c" -> "C" [] c = "d" -> "D"
                [] c = "e" -> "E" [] c = "f" -> "F" [] c = "g" -> "G" [] c = "h" -> "H"
                [] c = "i" -> "I" [] c = "j" -> "J" [] c = "k" -> "K" [] c = "l" -> "L"
                [] c = "m" -> "M" [] c = "n" -> "N" [] c = "o" -> "O" [] c = "p" -> "P"
                [] c = "q" -> "Q" [] c = "r" -> "R" [] c = "s" -> "S" [] c = "t" -> "T"
                [] c = "u" -> "U" [] c = "v" -> "V" [] c = "w" -> "W" [] c = "x" -> "X"
                [] c = "y" -> "Y" [] c = "z" -> "Z"]
UpperLetters == {UpperOf[c] : c \in LowerLetters}
Alnum == LowerLetters \cup UpperLetters \cup Digits
AlnumDash == Alnum \cup {"-"}

(* str.lower() *)
Lower(s) ==
    [i \in DOMAIN s |->
        IF s[i] \in UpperLetters THEN CHOOSE c \in LowerLetters : UpperOf[c] = s[i]
        ELSE s[i]]

(* str.strip() *)
Strip(s) ==
    LET keep == {i \in DOMAIN s : s[i] /= " "}
    IN IF keep = {} THEN <<>>
       ELSE SubSeq(s, CHOOSE i \in keep : \A j \in keep : i <= j,
                      CHOOSE i \in keep : \A j \in keep : j <= i)

(* literal lit stands in s at index i; wild: a "." of lit stands for any    *)
(* character, as in a regular expression                                    *)
MatchAt(s, i, lit, wild) ==
    /\ i + Len(lit) - 1 <= Len(s)
    /\ \A k \in DOMAIN lit : (wild /\ lit[k] = ".") \/ s[i + k - 1] = lit[k]

StartsWith(s, prefix) == MatchAt(s, 1, prefix, FALSE)

(* `d in domain` for strings *)
Contains(s, sub) == \E i \in 1..(Len(s) + 1) : MatchAt(s, i, sub, FALSE)

(* re.search(lit + '(' + class + '+)', s): the captured group of the        *)
(* leftmost match, or <<>> when there is none                               *)
ReSearch(lit, class, s, wild) ==
    LET starts == {i \in DOMAIN s : /\ MatchAt(s, i, lit, wild)
                                    /\ i + Len(lit) <= Len(s)
                                    /\ s[i + Len(lit)] \in class}
    IN IF starts = {} THEN <<>>
       ELSE LET i == CHOOSE x \in starts : \A y \in starts : x <= y
                b == i + Len(lit)
                e == CHOOSE x \in b..Len(s) :
                        /\ \A k \in b..x : s[k] \in class
                        /\ (x = Len(s) \/ s[x + 1] \notin class)
            IN SubSeq(s, b, e)

(* urlparse(url) of a url that has a scheme: the netloc runs from behind    *)
(* "://" to the first "/", "?" or "#", the path from there to "?" or "#"    *)
UrlParse(url) ==
    LET colon == CHOOSE i \in DOMAIN url : MatchAt(url, i, <<":", "/", "/">>, FALSE)
                    /\ \A j \in 1..(i - 1) : ~MatchAt(url, j, <<":", "/", "/">>, FALSE)
        b == colon + 3
        stops == {i \in b..Len(url) : url[i] \in {"/", "?", "#"}}
        ne == IF stops = {} THEN Len(url) + 1
              ELSE CHOOSE x \in stops : \A y \in stops : x <= y
        pstops == {i \in ne..Len(url) : url[i] \in {"?", "#"}}
        pe == IF pstops = {} THEN Len(url) + 1
              ELSE CHOOSE x \in pstops : \A y \in pstops : x <= y
    IN [scheme |-> SubSeq(url, 1, colon - 1),
        netloc |-> SubSeq(url, b, ne - 1),
        path |-> SubSeq(url, ne, pe - 1)]

(* URL_PATTERNS, in the order of the dict *)
Services == <<"tidal", "qobuz", "deezer">>
Domains ==
    [tidal |-> <<D_tidal, D_listen_tidal>>,
     qobuz |-> <<D_qobuz, D_play_qobuz, D_open_qobuz>>,
     deezer |-> <<D_deezer, D_deezer_page>>]
MediaTypes == <<"track", "album", "playlist", "artist">>
PatternLit == [track |-> P_track, album |-> P_album, playlist |-> P_playlist,
               artist |-> P_artist]
PatternClass(service, media_type) ==
    IF service = "tidal" /\ media_type = "playlist" THEN AlnumDash ELSE Digits

(* SHORT_URL_PATTERNS *)
ShortPatterns == <<SH_tidal, SH_qobuz, SH_deezer>>

(* _clean_url(url): <<>> stands for None *)
UP_clean_url(url) ==
    IF url = <<>> THEN <<>>
    ELSE LET stripped == Strip(url)
             full == IF StartsWith(stripped, S_http) \/ StartsWith(stripped, S_https)
                     THEN stripped ELSE S_https \o stripped
             result == UrlParse(full)
         IN IF result.scheme /= <<>> /\ result.netloc /= <<>> THEN full ELSE <<>>

(* _is_short_url(url) *)
UP_is_short_url(url) ==
    \E k \in DOMAIN ShortPatterns : ReSearch(ShortPatterns[k], Alnum, url, TRUE) /= <<>>

(* _identify_service(domain): "" stands for None *)
UP_identify_service(domain) ==
    LET d == Lower(domain)
        hits == {k \in DOMAIN Services :
                    \E n \in DOMAIN Domains[Services[k]] :
                        Contains(d, Domains[Services[k]][n])}
    IN IF hits = {} THEN ""
       ELSE Services[CHOOSE k \in hits : \A j \in hits : k <= j]

(* the last matching type of the order instead of the first *)
UP_extract_media_info_last(service, path) ==
    LET hits == {k \in DOMAIN MediaTypes :
                    ReSearch(PatternLit[MediaTypes[k]],
                             PatternClass(service, MediaTypes[k]), path, FALSE) /= <<>>}
    IN IF hits = {} THEN [media_type |-> "", media_id |-> <<>>]
       ELSE LET t == MediaTypes[CHOOSE k \in hits : \A j \in hits : k >= j]
            IN [media_type |-> t,
                media_id |-> ReSearch(PatternLit[t], PatternClass(service, t), path, FALSE)]

(* _extract_media_info(service, path) *)
UP_extract_media_info(service, path) ==
    LET hits == {k \in DOMAIN MediaTypes :
                    ReSearch(PatternLit[MediaTypes[k]],
                             PatternClass(service, MediaTypes[k]), path, FALSE) /= <<>>}
    IN IF hits = {} THEN [media_type |-> "", media_id |-> <<>>]
       ELSE LET t == MediaTypes[CHOOSE k \in hits : \A j \in hits : k <= j]
            IN [media_type |-> t,
                media_id |-> ReSearch(PatternLit[t], PatternClass(service, t), path, FALSE)]

UP_raise(message) ==
    [ok |-> FALSE, service |-> "", media_type |-> "", media_id |-> <<>>,
     error |-> "URLParsingError", message |-> message]

UP_no_media_returns_none(service, info) ==
    [ok |-> TRUE, service |-> "", media_type |-> "", media_id |-> <<>>,
     error |-> "", message |-> ""]

(* lines 87-89: `if not media_type or not media_id: raise URLParsingError`  *)
UP_no_media(service, info) ==
    UP_raise("Could not extract media information from path")

(* parse_url(url); expanded is what _expand_short_url gives for a short url *)
(* (<<>> for None: the request failed or did not answer 200)                *)
UP_parse_url(url, expanded) ==
    LET cleaned_url == UP_clean_url(url)
    IN IF cleaned_url = <<>> THEN UP_raise("Invalid URL format")
       ELSE LET cleaned2 == IF UP_is_short_url(cleaned_url) /\ expanded /= <<>>
                            THEN expanded ELSE cleaned_url
                parsed_url == UrlParse(cleaned2)
                service == UP_identify_service(parsed_url.netloc)
            IN IF service = "" THEN UP_raise("Unsupported service domain")
               ELSE LET info == UP_extract_media_info(service, parsed_url.path)
                    IN IF info.media_type = "" \/ info.media_id = <<>>
                       THEN UP_no_media(service, info)
                       ELSE [ok |-> TRUE, service |-> service,
                             media_type |-> info.media_type, media_id |-> info.media_id,
                             error |-> "", message |-> ""]

(* what _expand_short_url can give: None, or the url a short link leads to *)
Expansions == {<<>>, U_tidal_track}

(* parse_url on every input, computed once and looked up *)
UP_results == {<<x, UP_parse_url(x[1], x[2])>> : x \in UrlInputs \X Expansions}
UP_parsed(url, expanded) == (CHOOSE p \in UP_results : p[1] = <<url, expanded>>)[2]

(* ============ handlers/download_handler.py handle_url ==================== *)
HU_Users == 1..HU_NumUsers
HU_NoSession == [has |-> FALSE, url |-> <<>>, service |-> "", media_type |-> "",
                 media_id |-> <<>>]
HU_NoResult == [ok |-> FALSE, service |-> "", media_type |-> "", media_id |-> <<>>,
                error |-> "", message |-> ""]

HUInit ==
    /\ huUserData = [u \in HU_Users |-> HU_NoSession]
    /\ huLast = [user |-> 0, url |-> <<>>, result |-> HU_NoResult, reply |-> ""]

HU_session_after_eager(user_data, url, r) ==
    [has |-> TRUE, url |-> url, service |-> r.service, media_type |-> r.media_type,
     media_id |-> r.media_id]

(* context.user_data['current_download'] when handle_url is over: lines     *)
(* 31-36 are reached only when parse_url returned and service is not empty  *)
HU_session_after(user_data, url, r) ==
    IF r.ok /\ r.service /= ""
    THEN [has |-> TRUE, url |-> url, service |-> r.service,
          media_type |-> r.media_type, media_id |-> r.media_id]
    ELSE user_data

(* handle_url(update, context) for a message of the user with text url *)
HU_handle_url(user, url, expanded) ==
    LET r == UP_parsed(url, expanded)
    IN /\ huUserData' = [huUserData EXCEPT ![user] = HU_session_after(@, url, r)]
       /\ huLast' = [user |-> user, url |-> url, result |-> r,
                     reply |-> IF ~r.ok THEN "handle_error"
                               ELSE IF r.service = "" THEN "Invalid URL"
                               ELSE "Download Setup"]

HUHandleUrl ==
    /\ \E user \in HU_Users, url \in UrlInputs, expanded \in Expansions :
          HU_handle_url(user, url, expanded)
    /\ UNCHANGED <<cmVars, qmVars, dmVars, tdVars, dbVars, btVars, dlVars, ptVars, rlVars, tqVars, dzVars, daVars, pdVars, tbVars>>
(* ====== modules/tidal/tidal_api.py and music_downloader.py: quality ====== *)
(* The native quality codes of a service, best first. *)
TQ_Tiers ==
    [tidal |-> <<"HI_RES", "HIGH", "LOW">>,
     deezer |-> <<"9", "3", "1">>]

(* the quality names a caller may pass, per adapter *)
TQ_Qualities ==
    [tidal |-> {"hifi", "mqa", "high", "medium", "low", "dolby_atmos"},
     deezer |-> {"FLAC", "MP3_320", "MP3_128", "OGG"}]

(* quality_map.get(quality, default) *)
TQ_quality_map(adapter, quality) ==
    IF adapter = "tidal"
    THEN CASE quality \in {"hifi", "mqa"} -> "HI_RES"
           [] quality = "high" -> "HIGH"
           [] quality \in {"medium", "low"} -> "LOW"
           [] OTHER -> "HIGH"
    ELSE CASE quality = "FLAC" -> "9"
           [] quality = "MP3_320" -> "3"
           [] quality = "MP3_128" -> "1"
           [] OTHER -> "3"

TQ_NoCall == [adapter |-> "", quality |-> "", available |-> {}, status |-> 0,
              asked |-> <<>>, ok |-> FALSE, tier |-> "", error |-> "",
              available_qualities |-> {}]

TQInit == tqLast = TQ_NoCall

(* get_track_download_url(track_id, quality) of TidalApi, and get_download_url *)
(* of DeezerDownloader after its track request: one request for the mapped  *)
(* code; available: the codes the service has for the item; status: of the  *)
(* response.  asked: the codes requested, in order.                         *)
TQ_get_download_url(adapter, quality, available, status) ==
    LET code == TQ_quality_map(adapter, quality)
        call == [TQ_NoCall EXCEPT !.adapter = adapter, !.quality = quality,
                                  !.available = available, !.status = status,
                                  !.asked = <<code>>]
    IN tqLast' =
         IF status /= 200
         THEN [call EXCEPT !.error = IF adapter = "tidal" THEN "ApiError"
                                     ELSE "DownloadError"]
         ELSE IF code \in available
         THEN [call EXCEPT !.ok = TRUE, !.tier = code]
         ELSE \* QualityNotAvailableError(message): available_qualities = None
              [call EXCEPT !.error = "QualityNotAvailableError"]

TQGetDownloadUrl ==
    /\ \E adapter \in {"tidal", "deezer"}, status \in {200, 404} :
         \E quality \in TQ_Qualities[adapter],
            available \in SUBSET Range(TQ_Tiers[adapter]) :
              TQ_get_download_url(adapter, quality, available, status)
    /\ UNCHANGED <<cmVars, qmVars, dmVars, tdVars, dbVars, btVars, dlVars, ptVars, rlVars, huVars, dzVars, daVars, pdVars, tbVars>>
(* ======== service_handlers/deezer_handler.py DeezerHandler ============== *)
DZ_Tracks == 1..DZ_NumTracks

DZ_supported_qualities == {"MP3_128", "MP3_320", "FLAC"}

DZ_Qualities == DZ_supported_qualities \cup {"OGG"}

DZInit ==
    /\ dzPc = "idle"
    /\ dzTrack = 1
    /\ dzCoverUrl = FALSE
    /\ dzAudio = [t \in DZ_Tracks |-> "absent"]
    /\ dzCoverFile = [t \in DZ_Tracks |-> "absent"]
    /\ dzResults = <<>>

(* except Exception: return {'success': False, ...}; download_album goes on *)
(* with the next track                                                      *)
DZ_return(success) ==
    /\ dzResults' = Append(dzResults, success)
    /\ dzTrack' = dzTrack + 1
    /\ dzPc' = "idle"

(* download_track(track_id, quality), as download_album calls it for each   *)
(* track of the album: the quality check, then get_track_info is awaited    *)
DZ_download_track(quality) ==
    /\ dzPc = "idle"
    /\ dzTrack <= DZ_NumTracks
    /\ IF quality \notin DZ_supported_qualities
       THEN DZ_return(FALSE)
       ELSE /\ dzPc' = "get_track_info"
            /\ UNCHANGED <<dzTrack, dzResults>>
    /\ UNCHANGED <<dzCoverUrl, dzAudio, dzCoverFile>>

(* get_track_info returns a TrackInfo (with or without cover_url) or raises *)
DZ_get_track_info(ok, cover_url) ==
    /\ dzPc = "get_track_info"
    /\ IF ok
       THEN /\ dzPc' = "get_track_download_url"
            /\ dzCoverUrl' = cover_url
            /\ UNCHANGED <<dzTrack, dzResults>>
       ELSE /\ DZ_return(FALSE)
            /\ UNCHANGED dzCoverUrl
    /\ UNCHANGED <<dzAudio, dzCoverFile>>

(* api.get_track_download_url returns the url or raises *)
DZ_get_track_download_url(ok) ==
    /\ dzPc = "get_track_download_url"
    /\ IF ok
       THEN /\ dzPc' = "download_file"
            /\ UNCHANGED <<dzTrack, dzResults>>
       ELSE DZ_return(FALSE)
    /\ UNCHANGED <<dzCoverUrl, dzAudio, dzCoverFile>>

(* api.download_file(download_url, file_path) writes file_path or raises *)
DZ_download_file(ok) ==
    /\ dzPc = "download_file"
    /\ IF ok
       THEN /\ dzPc' = "add_metadata"
            /\ dzAudio' = [dzAudio EXCEPT ![dzTrack] = "written"]
            /\ UNCHANGED <<dzTrack, dzResults>>
       ELSE /\ DZ_return(FALSE)
            /\ UNCHANGED dzAudio
    /\ UNCHANGED <<dzCoverUrl, dzCoverFile>>

(* add_cover_art(file_path, cover_url): requests.get raises ("get_raises"); *)
(* or cover_path = file_path + ".cover.jpg" is written and then             *)
(* MP3(file_path), tags.add or save raises ("tag_raises") or the cover is   *)
(* saved into the file ("ok").  cover_path is never removed, every          *)
(* exception is logged and swallowed.  The result is the cover file.        *)
DZ_add_cover_art(outcome) ==
    IF outcome = "get_raises" THEN "absent" ELSE "written"

(* add_metadata(file_path, track_info), then the success return: opening    *)
(* the file raises (~open_ok), or the tags are set, add_cover_art runs when *)
(* track_info.cover_url is set, and audio.save() saves or raises; every     *)
(* exception is logged and swallowed                                        *)
DZ_add_metadata(open_ok, outcome, save_ok) ==
    /\ dzPc = "add_metadata"
    /\ IF ~open_ok
       THEN UNCHANGED <<dzAudio, dzCoverFile>>
       ELSE /\ dzCoverFile' =
                 IF dzCoverUrl
                 THEN [dzCoverFile EXCEPT ![dzTrack] = DZ_add_cover_art(outcome)]
                 ELSE dzCoverFile
            /\ dzAudio' = IF save_ok \/ (dzCoverUrl /\ outcome = "ok")
                          THEN [dzAudio EXCEPT ![dzTrack] = "tagged"]
                          ELSE dzAudio
    /\ DZ_return(TRUE)
    /\ UNCHANGED dzCoverUrl

DZDownloadTrack ==
    (\E quality \in DZ_Qualities : DZ_download_track(quality))
    /\ UNCHANGED <<cmVars, qmVars, dmVars, tdVars, dbVars, btVars, dlVars, ptVars, rlVars, huVars, tqVars, daVars, pdVars, tbVars>>
DZGetTrackInfo ==
    (\E ok \in BOOLEAN, cover_url \in BOOLEAN : DZ_get_track_info(ok, cover_url))
    /\ UNCHANGED <<cmVars, qmVars, dmVars, tdVars, dbVars, btVars, dlVars, ptVars, rlVars, huVars, tqVars, daVars, pdVars, tbVars>>
DZGetTrackDownloadUrl ==
    (\E ok \in BOOLEAN : DZ_get_track_download_url(ok))
    /\ UNCHANGED <<cmVars, qmVars, dmVars, tdVars, dbVars, btVars, dlVars, ptVars, rlVars, huVars, tqVars, daVars, pdVars, tbVars>>
DZDownloadFile ==
    (\E ok \in BOOLEAN : DZ_download_file(ok))
    /\ UNCHANGED <<cmVars, qmVars, dmVars, tdVars, dbVars, btVars, dlVars, ptVars, rlVars, huVars, tqVars, daVars, pdVars, tbVars>>
DZAddMetadata ==
    (\E open_ok \in BOOLEAN, outcome \in {"get_raises", "tag_raises", "ok"},
        save_ok \in BOOLEAN : DZ_add_metadata(open_ok, outcome, save_ok))
    /\ UNCHANGED <<cmVars, qmVars, dmVars, tdVars, dbVars, btVars, dlVars, ptVars, rlVars, huVars, tqVars, daVars, pdVars, tbVars>>
(* ==== modules/tidal/tidal_api.py, modules/tidal/api.py: device auth ====== *)
DA_Impls == {"tidal_api", "api"}

DAInit ==
    /\ daPc = "idle"
    /\ daImpl = ""
    /\ daInterval = 0
    /\ daExpiresIn = 0
    /\ daNow = 0
    /\ daApproved = FALSE
    /\ daPolls = <<>>
    /\ daError = ""

(* the error the timeout raises: AuthenticationError in tidal_api.py, a     *)
(* plain Exception in api.py                                                *)
DA_timeout_error(impl) ==
    IF impl = "tidal_api" THEN "AuthenticationError" ELSE "Exception"

DA_raise(error) ==
    /\ daPc' = "raised"
    /\ daError' = error

(* _wait_for_device_auth(device_code) up to start_time = time.time().       *)
(* code_is_str: the value under 'device_code' is a string; the name         *)
(* device_code is rebound to it and device_code['verification_uri_complete']*)
(* then raises TypeError.  Otherwise it is an object with that key.         *)
DA_wait_for_device_auth(impl, interval, expires_in, code_is_str) ==
    /\ daPc = "idle"
    /\ daImpl' = impl
    /\ daInterval' = interval
    /\ daExpiresIn' = expires_in
    /\ IF code_is_str
       THEN DA_raise("TypeError")
       ELSE /\ daPc' = "while"
            /\ UNCHANGED daError
    /\ UNCHANGED <<daNow, daApproved, daPolls>>

(* while time.time() - start_time < expires_in: the token request is sent;  *)
(* else raise ...("Authorization timeout").  start_time is 0.               *)
DA_while ==
    /\ daPc = "while"
    /\ IF daNow < daExpiresIn
       THEN /\ daPc' = "post"
            /\ daPolls' = Append(daPolls, daNow)
            /\ UNCHANGED daError
       ELSE /\ DA_raise(DA_timeout_error(daImpl))
            /\ UNCHANGED daPolls
    /\ UNCHANGED <<daImpl, daInterval, daExpiresIn, daNow, daApproved>>

(* the token request is answered: 200 (only once the user has approved)     *)
(* returns data['access_token']; another status goes on to the sleep; a     *)
(* failed request (status 0) is swallowed by the bare except of             *)
(* tidal_api.py and propagates out of api.py                                *)
DA_response(status) ==
    /\ daPc = "post"
    /\ status = 200 <=> (daApproved /\ status /= 0)
    /\ IF status = 200
       THEN /\ daPc' = "returned"
            /\ UNCHANGED daError
       ELSE IF status = 0 /\ daImpl = "api"
       THEN DA_raise("ConnectionError")
       ELSE /\ daPc' = "sleep"
            /\ UNCHANGED daError
    /\ UNCHANGED <<daImpl, daInterval, daExpiresIn, daNow, daApproved, daPolls>>

(* sleep(interval) is over *)
DA_sleep ==
    /\ daPc = "sleep"
    /\ daNow' = daNow + daInterval
    /\ daPc' = "while"
    /\ UNCHANGED <<daImpl, daInterval, daExpiresIn, daApproved, daPolls, daError>>

(* the user approves the device in the browser *)
DA_approve ==
    /\ daPc \in {"while", "post", "sleep"}
    /\ ~daApproved
    /\ daApproved' = TRUE
    /\ UNCHANGED <<daPc, daImpl, daInterval, daExpiresIn, daNow, daPolls, daError>>

DAWaitForDeviceAuth ==
    (\E impl \in DA_Impls, interval \in 1..DA_MaxInterval,
        expires_in \in 1..DA_MaxExpiresIn, code_is_str \in BOOLEAN :
          DA_wait_for_device_auth(impl, interval, expires_in, code_is_str))
    /\ UNCHANGED <<cmVars, qmVars, dmVars, tdVars, dbVars, btVars, dlVars, ptVars, rlVars, huVars, tqVars, dzVars, pdVars, tbVars>>
DAWhile == DA_while /\ UNCHANGED <<cmVars, qmVars, dmVars, tdVars, dbVars, btVars, dlVars, ptVars, rlVars, huVars, tqVars, dzVars, pdVars, tbVars>>
DAResponse ==
    (\E status \in {0, 200, 400} : DA_response(status))
    /\ UNCHANGED <<cmVars, qmVars, dmVars, tdVars, dbVars, btVars, dlVars, ptVars, rlVars, huVars, tqVars, dzVars, pdVars, tbVars>>
DASleep == DA_sleep /\ UNCHANGED <<cmVars, qmVars, dmVars, tdVars, dbVars, btVars, dlVars, ptVars, rlVars, huVars, tqVars, dzVars, pdVars, tbVars>>
DAApprove == DA_approve /\ UNCHANGED <<cmVars, qmVars, dmVars, tdVars, dbVars, btVars, dlVars, ptVars, rlVars, huVars, tqVars, dzVars, pdVars, tbVars>>
(* ====== handlers/download_handler.py process_download, _update_progress == *)
(* DownloadStatus(): error "None" stands for None *)
PD_NewStatus == [message |-> FALSE, progress |-> 0, is_completed |-> FALSE,
                 error |-> "None"]

PDInit ==
    /\ pdPc = "idle"
    /\ pdStatus = PD_NewStatus
    /\ pdUpdater = "none"
    /\ pdEdits = 0

(* `not status.is_completed and not status.error`: None and the empty       *)
(* string are both false                                                    *)
PD_loop_condition(status) ==
    ~status.is_completed /\ status.error \in {"None", ""}

(* except Exception as e: status.error = str(e); handle_error(...) *)
PD_except(status, message) ==
    /\ pdStatus' = [status EXCEPT !.error = message]
    /\ pdPc' = "ended"

(* process_download up to the await of start_download.  The download        *)
(* manager it is written for (keyword arguments service, media_type,        *)
(* media_id, quality, format; method start_download) is not the class of    *)
(* utils/download_manager.py, whose constructor raises TypeError for these  *)
(* arguments: constructed says which of the two the call meets.             *)
PD_process_download(has_session, constructed, edit_ok) ==
    /\ pdPc = "idle"
    /\ IF ~has_session
       THEN /\ pdPc' = "ended"
            /\ UNCHANGED <<pdStatus, pdUpdater>>
       ELSE IF ~constructed
       THEN /\ PD_except(pdStatus, "TypeError: unexpected keyword argument")
            /\ UNCHANGED pdUpdater
       ELSE IF ~edit_ok
       THEN /\ PD_except(pdStatus, "BadRequest")
            /\ UNCHANGED pdUpdater
       ELSE /\ pdStatus' = [pdStatus EXCEPT !.message = TRUE]
            /\ pdUpdater' = "running"
            /\ pdPc' = "start_download"
    /\ UNCHANGED pdEdits

(* progress_callback(p): status.progress = int(p * 100), in steps *)
PD_update_download_progress ==
    /\ pdPc = "start_download"
    /\ pdStatus.progress < PD_MaxProgress
    /\ pdStatus' = [pdStatus EXCEPT !.progress = @ + 1]
    /\ UNCHANGED <<pdPc, pdUpdater, pdEdits>>

(* start_download returns output_path: is_completed = True; the file is     *)
(* sent and removed, or an exception (of the send, or "file not found")     *)
(* reaches the except block with the message str(e)                         *)
PD_start_download_returns(exists, send_ok, message) ==
    /\ pdPc = "start_download"
    /\ LET done == [pdStatus EXCEPT !.is_completed = TRUE]
       IN IF ~exists THEN PD_except(done, "Download failed - file not found")
          ELSE IF ~send_ok THEN PD_except(done, message)
          ELSE /\ pdStatus' = done
               /\ pdPc' = "ended"
    /\ UNCHANGED <<pdUpdater, pdEdits>>

(* start_download raises e: status.error = str(e) *)
PD_start_download_raises(message) ==
    /\ pdPc = "start_download"
    /\ PD_except(pdStatus, message)
    /\ UNCHANGED <<pdUpdater, pdEdits>>

(* _update_progress: one test of the loop condition; the body edits the     *)
(* message (an exception of the edit is swallowed) and sleeps 2 seconds     *)
PD_update_progress ==
    /\ pdUpdater = "running"
    /\ IF PD_loop_condition(pdStatus)
       THEN /\ pdEdits < PD_MaxEdits
            /\ pdEdits' = pdEdits + 1
            /\ UNCHANGED pdUpdater
       ELSE /\ pdUpdater' = "exited"
            /\ UNCHANGED pdEdits
    /\ UNCHANGED <<pdPc, pdStatus>>

(* str(e) of an exception: a text, or empty as for Exception() or           *)
(* asyncio.TimeoutError()                                                   *)
PD_Messages == {"", "ClientError: connection reset"}

PDProcessDownload ==
    (\E has_session \in BOOLEAN, constructed \in BOOLEAN, edit_ok \in BOOLEAN :
        PD_process_download(has_session, constructed, edit_ok))
    /\ UNCHANGED <<cmVars, qmVars, dmVars, tdVars, dbVars, btVars, dlVars, ptVars, rlVars, huVars, tqVars, dzVars, daVars, tbVars>>
PDUpdateDownloadProgress ==
    PD_update_download_progress
    /\ UNCHANGED <<cmVars, qmVars, dmVars, tdVars, dbVars, btVars, dlVars, ptVars, rlVars, huVars, tqVars, dzVars, daVars, tbVars>>
PDStartDownloadReturns ==
    (\E exists \in BOOLEAN, send_ok \in BOOLEAN, message \in PD_Messages :
        PD_start_download_returns(exists, send_ok, message))
    /\ UNCHANGED <<cmVars, qmVars, dmVars, tdVars, dbVars, btVars, dlVars, ptVars, rlVars, huVars, tqVars, dzVars, daVars, tbVars>>
PDStartDownloadRaises ==
    (\E message \in PD_Messages : PD_start_download_raises(message))
    /\ UNCHANGED <<cmVars, qmVars, dmVars, tdVars, dbVars, btVars, dlVars, ptVars, rlVars, huVars, tqVars, dzVars, daVars, tbVars>>
PDUpdateProgress ==
    PD_update_progress
    /\ UNCHANGED <<cmVars, qmVars, dmVars, tdVars, dbVars, btVars, dlVars, ptVars, rlVars, huVars, tqVars, dzVars, daVars, tbVars>>
(* ============== telegram_bot.py: the credential conversation ============= *)
TB_Services == {"tidal", "qobuz", "deezer"}
TB_Texts == {"alice", "bob", "secret"}

(* an authentication attempt that has not been made *)
TB_NoAttempt == [service |-> "", username |-> "", password |-> "", replies |-> <<>>]

(* context.user_data: "" stands for a key that is absent *)
TBInit ==
    /\ tbState = "END"
    /\ tbUserData = [service |-> "", username |-> ""]
    /\ tbFlows = 0
    /\ tbReplies = <<>>
    /\ tbAttempt = TB_NoAttempt

(* auth(update, context): /auth of an authorized user, or of another one *)
TB_auth(authorized) ==
    /\ tbState = "END"
    /\ tbFlows < TB_MaxFlows
    /\ tbFlows' = tbFlows + 1
    /\ tbState' = IF authorized THEN "CHOOSING" ELSE "END"
    /\ UNCHANGED <<tbUserData, tbReplies, tbAttempt>>

(* auth_callback: the service button is pressed *)
TB_auth_callback(service) ==
    /\ tbState = "CHOOSING"
    /\ tbUserData' = [tbUserData EXCEPT !.service = service]
    /\ tbState' = "TYPING_REPLY"
    /\ tbReplies' = <<>>
    /\ UNCHANGED <<tbFlows, tbAttempt>>

(* received_information: a text reply in state TYPING_REPLY *)
TB_received_information(user_input) ==
    /\ tbState = "TYPING_REPLY"
    /\ tbReplies' = Append(tbReplies, user_input)
    /\ IF tbUserData.username = ""
       THEN /\ tbUserData' = [tbUserData EXCEPT !.username = user_input]
            /\ tbState' = "TYPING_REPLY"
            /\ UNCHANGED tbAttempt
       ELSE /\ tbAttempt' = [service |-> tbUserData.service,
                             username |-> tbUserData.username,
                             password |-> user_input,
                             replies |-> Append(tbReplies, user_input)]
            /\ tbUserData' = [service |-> "", username |-> ""]
            /\ tbState' = "END"
    /\ UNCHANGED tbFlows

(* cancel: replies 'Operation cancelled.' and ends the conversation;        *)
(* user_data is left as it is                                               *)
TB_cancel ==
    /\ tbState \in {"CHOOSING", "TYPING_REPLY"}
    /\ tbState' = "END"
    /\ UNCHANGED <<tbUserData, tbFlows, tbReplies, tbAttempt>>

TBAuth ==
    (\E authorized \in BOOLEAN : TB_auth(authorized))
    /\ UNCHANGED <<cmVars, qmVars, dmVars, tdVars, dbVars, btVars, dlVars, ptVars, rlVars, huVars, tqVars, dzVars, daVars, pdVars>>
TBAuthCallback ==
    (\E service \in TB_Services : TB_auth_callback(service))
    /\ UNCHANGED <<cmVars, qmVars, dmVars, tdVars, dbVars, btVars, dlVars, ptVars, rlVars, huVars, tqVars, dzVars, daVars, pdVars>>
TBReceivedInformation ==
    (\E user_input \in TB_Texts : TB_received_information(user_input))
    /\ UNCHANGED <<cmVars, qmVars, dmVars, tdVars, dbVars, btVars, dlVars, ptVars, rlVars, huVars, tqVars, dzVars, daVars, pdVars>>
TBCancel ==
    TB_cancel
    /\ UNCHANGED <<cmVars, qmVars, dmVars, tdVars, dbVars, btVars, dlVars, ptVars, rlVars, huVars, tqVars, dzVars, daVars, pdVars>>
(* ========================== specifications ============================= *)
Init ==
    /\ CMInit /\ QMInit /\ DMInit /\ TDInit /\ DBInit /\ BTInit /\ DLInit
    /\ PTInit /\ RLInit /\ HUInit /\ TQInit /\ DZInit /\ DAInit
    /\ PDInit /\ TBInit

Next ==
    \/ AddToQueue
    \/ ProcessDownloadBegin
    \/ ProcessDownloadEnd

Spec == Init /\ [][Next]_vars

NextQM ==
    \/ QMAddToQueue
    \/ QMProcessQueueCall
    \/ QMTaskFinish
    \/ QMTaskDone
    \/ QMProcessQueueTask

SpecQM == Init /\ [][NextQM]_vars

NextDM ==
    \/ DMDownload
    \/ DMAcquire
    \/ DMResponse
    \/ DMChunk
    \/ DMEof
    \/ DMNetworkError
    \/ DMCancelDownload
    \/ DMSetCancelled
    \/ TDDownloadTrack
    \/ TDGetTrackInfo
    \/ TDGetDownloadUrl
    \/ TDDownloadFile
    \/ TDWriteAndTag

SpecDM == Init /\ [][NextDM]_vars

NextDB ==
    \/ DBAddDownload
    \/ DBUpdateDownloadStatus

SpecDB == Init /\ [][NextDB]_vars

NextBatch ==
    \/ BTBatchDownload
    \/ ALDownloadAlbum
    \/ ALAlbumInfo
    \/ ALTrackBegin
    \/ ALTrackEnd
    \/ BTSingleBegin
    \/ BTSingleEnd
    \/ BTGatherRaises
    \/ BTGatherReturns

SpecBatch == Init /\ [][NextBatch]_vars

NextDL ==
    \/ DLDownload
    \/ DLStart
    \/ DLResponse
    \/ DLChunk
    \/ DLEof
    \/ DLCancelDownload
    \/ DLCancelled

SpecDL == Init /\ [][NextDL]_vars

NextPT ==
    \/ PTResponse
    \/ PTChunk
    \/ PTEof
    \/ PTTick

SpecPT == Init /\ [][NextPT]_vars
NextRL ==
    \/ RLNew
    \/ RLCanProceed
    \/ RLResetUser
    \/ RLTick

SpecRL == Init /\ [][NextRL]_vars
NextURL ==
    \/ HUHandleUrl

SpecURL == Init /\ [][NextURL]_vars
NextTQ ==
    \/ TQGetDownloadUrl

SpecTQ == Init /\ [][NextTQ]_vars
NextDZ ==
    \/ DZDownloadTrack
    \/ DZGetTrackInfo
    \/ DZGetTrackDownloadUrl
    \/ DZDownloadFile
    \/ DZAddMetadata

SpecDZ == Init /\ [][NextDZ]_vars
NextDA ==
    \/ DAWaitForDeviceAuth
    \/ DAWhile
    \/ DAResponse
    \/ DASleep
    \/ DAApprove

SpecDA == Init /\ [][NextDA]_vars
NextPD ==
    \/ PDProcessDownload
    \/ PDUpdateDownloadProgress
    \/ PDStartDownloadReturns
    \/ PDStartDownloadRaises
    \/ PDUpdateProgress

SpecPD == Init /\ [][NextPD]_vars
NextTB ==
    \/ TBAuth
    \/ TBAuthCallback
    \/ TBReceivedInformation
    \/ TBCancel

SpecTB == Init /\ [][NextTB]_vars
(* ============================== claims ================================= *)
CM_Downloading == {i \in DOMAIN cmItems : cmItems[i].status = DOWNLOADING}
CM_Tuple(i) == <<cmItems[i].user_id, cmItems[i].file_url, cmItems[i].quality,
                 cmItems[i].format>>
Position(seq, x) == CHOOSE k \in DOMAIN seq : seq[k] = x

C2_OneNonTerminalJobPerTuple ==
    \A i, j \in DOMAIN cmItems :
        (i /= j /\ CM_Tuple(i) = CM_Tuple(j))
            => (cmItems[i].status \in Terminal \/ cmItems[j].status \in Terminal)

(* C6: the queue never rests with a free slot and a waiting job: whenever   *)
(* a job waits and fewer than max_concurrent tasks are active, an admission *)
(* (a process_queue task) is already scheduled                              *)
C6_NoFreeSlotWithPending ==
    (qmQueue /= <<>> /\ Cardinality(qmActive) < qm_max_concurrent) => qmPending > 0

(* C7: admission is global FIFO: a coroutine handed to add_to_queue before  *)
(* another one is started by process_queue no later than it; the queue      *)
(* holds the work of all users in one deque                                 *)
C7_GlobalFIFO ==
    \A a, b \in 1..QM_MaxCoros :
        (a < b /\ b \in Range(qmAdmitted))
            => (a \in Range(qmAdmitted)
                /\ Position(qmAdmitted, a) < Position(qmAdmitted, b))

(* more coroutines than there are slots have been queued and all of them    *)
(* have been started: the last ones had to wait for a task to finish        *)
C7_Witness ==
    /\ Len(qmAdmitted) > qm_max_concurrent
    /\ qmQueue = <<>>

(* C3: job status is forward-only: a Completed, Failed or Cancelled job     *)
(* keeps its status in every later step, and no job goes from Downloading   *)
(* back to Pending                                                          *)
C3_StatusForwardOnly ==
    [][/\ \A i \in DOMAIN cmItems :
            /\ cmItems[i].status \in Terminal => cmItems'[i].status = cmItems[i].status
            /\ cmItems[i].status = DOWNLOADING => cmItems'[i].status /= PENDING
       /\ \A id \in DOMAIN dbDownloads :
            /\ dbDownloads[id].status \in Terminal
                  => dbDownloads'[id].status = dbDownloads[id].status
            /\ dbDownloads[id].status = DOWNLOADING
                  => dbDownloads'[id].status /= PENDING]_vars

(* C4: a download cancelled while it waits for a concurrency slot is never  *)
(* started: no request is sent and no output file is opened for it          *)
C4_PendingCancelNeverDownloads ==
    \A r \in Requests :
        dmCancelAt[r] = "waiting"
            => (dmPc[r] \in {"waiting", "failed"}
                /\ dmAttempts[r] = 0 /\ ~dmFileExists[r])

(* C5: a download that observes the cancel flag between two chunks leaves   *)
(* no file at its output path, and a download whose flag was set before its *)
(* last chunk was written does not end completed                            *)
C5_CancelDeletesPartialFile ==
    /\ \A r \in Requests :
          /\ dmError[r] = "Download cancelled" => ~dmFileExists[r]
          /\ (dmCancelled[r] /\ dmCancelAt[r] /= "after last chunk")
                 => dmPc[r] /= "returned"
    /\ \A d \in Downloads :
          /\ dlPc[d] = "cancelled" => dlName[d] \notin DOMAIN dlFile
          /\ dlMustCancel[d] => dlPc[d] /= "done"

(* C8: the failure of one track does not stop the others: when the album    *)
(* download is over after a track failed, every other track of the album    *)
(* has been downloaded or has failed on its own                             *)
C8_FailureDoesNotAbortOthers ==
    (alPc \in {"returned", "raised"} /\ \E i \in AlbumTracks : alTrack[i] = "raised")
        => \A j \in AlbumTracks : alTrack[j] \in {"success", "raised"}

(* C9: a download fails for a transient network failure (connection error,  *)
(* HTTP 5xx) only after it has been retried                                 *)
C9_TransientFailureIsRetried ==
    \A r \in Requests :
        (dmPc[r] = "failed"
         /\ (dmError[r] = "ClientError" \/ dmStatus[r] >= 500))
            => dmAttempts[r] > 1

(* C10: a non-retryable failure fails the download at once.  A 4xx response *)
(* (not found, not authorised) ends DownloadManager.download after the one  *)
(* request that got it; when no download url is available for the quality   *)
(* (QualityNotAvailableError) TidalDownloader.download_track ends without   *)
(* asking again and without requesting the file                             *)
C10_NonRetryableFailsImmediately ==
    /\ \A r \in Requests :
          (dmStatus[r] >= 400 /\ dmStatus[r] < 500)
              => (dmPc[r] = "failed" /\ dmAttempts[r] = 1
                  /\ dmError[r] = "Download failed with status")
    /\ tdError \in {"InvalidURLError", "QualityNotAvailableError", "DownloadError"}
          => (tdPc = "raised"
              /\ tdCalls.get_track_info = 1
              /\ tdCalls.get_download_url <= 1
              /\ tdCalls.download_file <= 1
              /\ (tdError = "QualityNotAvailableError" => tdCalls.download_file = 0))

(* one download has failed on a 404 while another one is still running, and *)
(* download_track has failed for want of a download url                     *)
C10_Witness ==
    /\ \E r, q \in Requests :
          /\ dmStatus[r] = 404 /\ dmPc[r] = "failed"
          /\ dmPc[q] \in {"get", "streaming"}
    /\ tdError = "QualityNotAvailableError"

(* C11: the progress values shown for one download never decrease, and when *)
(* the total size is known the last value shown once the download has       *)
(* returned is the total (100%)                                             *)
C11_ProgressMonotoneAndFinal ==
    /\ \A i, j \in DOMAIN ptEdits : i < j => ptEdits[i].current <= ptEdits[j].current
    /\ (ptPc = "returned" /\ ptTotal > 0)
          => (ptEdits /= <<>> /\ ptEdits[Len(ptEdits)].current = ptTotal)

(* C12: progress reporting is throttled: two message edits of one download  *)
(* are at least 2 seconds apart, however fast the chunks arrive             *)
C12_EditsTwoSecondsApart ==
    \A i \in DOMAIN ptEdits :
        i > 1 => ptEdits[i].time - ptEdits[i - 1].time >= 2

(* two edits exactly 2 seconds apart, with a chunk between them whose       *)
(* update was held back                                                     *)
C12_Witness ==
    /\ Len(ptEdits) >= 2
    /\ ptEdits[2].time - ptEdits[1].time = 2
    /\ ptEdits[2].current - ptEdits[1].current >= 2

(* the times, among seq, that lie in the window of length w ending at t *)
RL_InWindow(seq, t, w) == {i \in DOMAIN seq : t - w < seq[i] /\ seq[i] <= t}

(* what can_proceed had granted to the user of the last call before it *)
RL_GrantedBefore(r) ==
    IF r.allowed THEN SubSeq(rlGranted[r.user], 1, Len(rlGranted[r.user]) - 1)
    ELSE rlGranted[r.user]

(* C13: with K = max_requests >= 0, a can_proceed call of a user who has    *)
(* been granted K requests within the window returns allowed = false and a  *)
(* strictly positive wait time                                              *)
C13_OverLimitIsRefused ==
    (/\ rlResult.user \in RL_Users \ rlReset
     /\ rlResult.error /= "reset"
     /\ Cardinality(RL_InWindow(RL_GrantedBefore(rlResult), rlResult.time,
                                rl_time_window)) >= rl_max_requests)
        => (~rlResult.allowed /\ rlResult.error = "" /\ rlResult.wait_time > 0)

(* C14: sliding window: in every interval of length time_window at most     *)
(* max_requests can_proceed calls of one user are allowed                   *)
C14_SlidingWindow ==
    \A u \in RL_Users \ rlReset, t \in 0..RL_MaxTime :
        Cardinality(RL_InWindow(rlGranted[u], t, rl_time_window)) <= rl_max_requests

(* a user has been refused within a window and has, over several windows,   *)
(* been granted more than max_requests requests                             *)
C14_Witness ==
    \E u \in RL_Users \ rlReset :
        /\ rl_max_requests >= 1
        /\ Len(rlGranted[u]) > rl_max_requests
        /\ rlResult.user = u /\ ~rlResult.allowed /\ rlResult.wait_time > 0

(* C15: the limiter's state is per user: a call for one user leaves what is *)
(* recorded for every other user as it was, and whether a user's call is    *)
(* allowed follows from the grants made to that user alone                  *)
C15_PerUserState ==
    [][/\ \A v \in RL_Users :
            v /= rlResult'.user
                => /\ (v \in DOMAIN rlRequests') <=> (v \in DOMAIN rlRequests)
                   /\ RL_get(rlRequests', v) = RL_get(rlRequests, v)
       /\ (rlResult' /= rlResult /\ rlResult'.error = ""
           /\ rlResult'.user \notin rlReset')
            => (rlResult'.allowed <=>
                  Cardinality(RL_InWindow(
                      IF rlResult'.allowed
                      THEN rlGranted[rlResult'.user]
                      ELSE rlGranted'[rlResult'.user],
                      rlResult'.time, rl_time_window)) < rl_max_requests)]_vars

(* one user has been reset after having been refused, while requests of     *)
(* another user are on record                                               *)
C15_Witness ==
    \E u, v \in RL_Users :
        /\ u /= v
        /\ rlResult.user = u /\ rlResult.error = "reset"
        /\ v \in DOMAIN rlRequests /\ rlRequests[v] /= <<>>
        /\ rlGranted[u] /= <<>>

(* C16: resolution errors fail fast: when parse_url fails for the url of a  *)
(* message, the error goes to the caller (handle_error replies) and the     *)
(* call creates no download session: user_data is left as it was            *)
C16_ResolutionErrorsFailFast ==
    [][(huLast' /= huLast /\ ~huLast'.result.ok)
          => (huUserData' = huUserData /\ huLast'.reply = "handle_error")]_vars

(* a url of an unsupported host has been handled for a user who has no      *)
(* session                                                                  *)
C16_Witness ==
    \E u \in HU_Users :
        /\ huLast.user = u /\ ~huLast.result.ok /\ huLast.url = U_invalid_host
        /\ huLast.reply = "handle_error"
        /\ ~huUserData[u].has

TQ_LowerAvailable(adapter, code, available) ==
    {t \in available :
        Position(TQ_Tiers[adapter], t) > Position(TQ_Tiers[adapter], code)}

(* C18: resolve_download_url falls back by tier: when the requested tier is *)
(* not available for the item and a lower one is, the call gives the url of *)
(* a lower tier; it fails with QualityNotAvailableError, naming the tiers   *)
(* that are available, only when no lower tier is available                 *)
C18_FallsBackToLowerTier ==
    (tqLast.adapter /= "" /\ tqLast.status = 200
     /\ tqLast.asked[1] \notin tqLast.available)
        => IF TQ_LowerAvailable(tqLast.adapter, tqLast.asked[1], tqLast.available) /= {}
           THEN /\ tqLast.ok
                /\ tqLast.tier \in TQ_LowerAvailable(tqLast.adapter, tqLast.asked[1],
                                                     tqLast.available)
           ELSE /\ tqLast.error = "QualityNotAvailableError"
                /\ tqLast.available_qualities = tqLast.available

(* C19: finalization is atomic: in every reachable state the final path     *)
(* (filepath of download_track, request.output_path of _download_file)      *)
(* either does not exist or holds a fully written and, for download_track,  *)
(* fully tagged file, also when the download or the tagging fails part-way  *)
C19_FinalPathAbsentOrComplete ==
    /\ tdFile \in {"absent", "tagged"}
    /\ \A r \in Requests : dmFileExists[r] => dmWritten[r] = DM_NumChunks

(* C20: temporary files are always cleaned up: after a download job ends,   *)
(* in success or in failure at any step, no cover temp file of that job     *)
(* (cover_path) remains on disk; the code has no audio temp file            *)
C20_NoTempFileAfterJob ==
    \A t \in 1..Len(dzResults) : dzCoverFile[t] = "absent"

(* s ends with suffix *)
EndsWith(s, suffix) ==
    /\ Len(suffix) <= Len(s)
    /\ SubSeq(s, Len(s) - Len(suffix) + 1, Len(s)) = suffix

(* the host equals the registered domain or ends with "." plus it *)
UP_SuffixMatches(host, domain) ==
    host = domain \/ EndsWith(host, <<".">> \o domain)

(* the services one of whose registered domains the host suffix-matches *)
UP_SuffixServices(host) ==
    {Services[k] : k \in {j \in DOMAIN Services :
        \E n \in DOMAIN Domains[Services[j]] :
            UP_SuffixMatches(host, Domains[Services[j]][n])}}

(* the urls of UrlInputs that parse_url parses as they are (cleaned, and not *)
(* short), each with the lower-cased host and the path of the cleaned url    *)
UP_parts ==
    {<<u, Lower(UrlParse(UP_clean_url(u)).netloc), UrlParse(UP_clean_url(u)).path>> :
        u \in {x \in UrlInputs : /\ UP_clean_url(x) /= <<>>
                                 /\ ~UP_is_short_url(UP_clean_url(x))}}

(* C21: the service of a url is found by suffix-matching the host: a url is *)
(* given a service only if its host equals a registered domain of that      *)
(* service or ends with "." plus that domain, and a host that suffix-       *)
(* matches no registered domain is rejected as an unsupported service       *)
C21_ServiceBySuffixMatch ==
    \A p \in UP_parts :
        huLast.url = p[1] /\ huLast.user /= 0
            => /\ huLast.result.ok => huLast.result.service \in UP_SuffixServices(p[2])
               /\ UP_SuffixServices(p[2]) = {}
                    => /\ ~huLast.result.ok
                       /\ huLast.result.message = "Unsupported service domain"

(* C22: media type and id come from the first pattern that matches the path *)
(* in the order track, album, playlist, artist: the returned type is the    *)
(* earliest type whose pattern matches and the id is its captured group     *)
C22_FirstPatternInOrderWins ==
    \A p \in UP_parts :
        (huLast.url = p[1] /\ huLast.user /= 0 /\ huLast.result.ok)
            => \E k \in DOMAIN MediaTypes :
                 LET service == huLast.result.service
                     group(j) == ReSearch(PatternLit[MediaTypes[j]],
                                          PatternClass(service, MediaTypes[j]), p[3], FALSE)
                 IN /\ huLast.result.media_type = MediaTypes[k]
                    /\ group(k) /= <<>>
                    /\ huLast.result.media_id = group(k)
                    /\ \A j \in 1..(k - 1) : group(j) = <<>>

(* "https://tidal.com/album/1/track/2" was resolved: the album pattern      *)
(* matches further left, the track pattern is earlier in the order          *)
C22_Witness ==
    /\ huLast.user /= 0
    /\ huLast.url = U_two_types
    /\ huLast.result.ok
    /\ huLast.result.media_type = "track"
    /\ huLast.result.media_id = <<"2">>

(* C23: device-code polling ends in one of two ways: it returns the access  *)
(* token after the user has approved, or it fails with the authentication   *)
(* error once the expiry has elapsed; no poll is sent at or after expiry    *)
C23_PollingEndsWithTokenOrAuthFailure ==
    /\ daPc = "returned" => daApproved
    /\ daPc = "raised" => /\ daError = "AuthenticationError"
                          /\ daNow >= daExpiresIn
    /\ \A k \in DOMAIN daPolls : daPolls[k] < daExpiresIn

(* C24: each job writes to its own file path: two downloads that are in     *)
(* flight at the same time never have the same file open for writing        *)
C24_ConcurrentJobsWriteDistinctPaths ==
    \A d, e \in Downloads :
        (d /= e /\ dlPc[d] = "streaming" /\ dlPc[e] = "streaming")
            => dlName[d] /= dlName[e]

(* C25: add_to_queue called while fewer than max_concurrent tasks are active *)
(* returns normally and has started the job: after the call the coroutine   *)
(* is running (or further) and is not waiting in the deque                  *)
C25_AddToQueueStartsJobWhenSlotFree ==
    [][\A c \in 1..QM_MaxCoros :
          (qmCoro[c] = "new" /\ qmCoro'[c] /= "new"
           /\ Cardinality(qmActive) < qm_max_concurrent)
              => /\ c \notin qmRaised'
                 /\ c \notin Range(qmQueue')
                 /\ qmCoro'[c] \in {"running", "finished", "removed"}]_vars

(* C26: slot accounting: active_downloads has as many entries as there are  *)
(* jobs admitted by process_queue whose process_download has not finished,  *)
(* and the release at the end of process_download never fails               *)
C26_SlotAccounting ==
    /\ Cardinality(DOMAIN cmActive)
         = Cardinality({i \in Range(cmAdmitted) : cmTask[i] \in {"created", "running"}})
    /\ \A i \in DOMAIN cmTask : cmTask[i] /= "KeyError"

(* C27: download never leaks a permit: the free permits are the permits of  *)
(* the semaphore less the downloads that are inside _download_file, so once *)
(* every started download has ended, in whatever way, all                   *)
(* max_concurrent_downloads permits are free again                          *)
C27_NoPermitLeak ==
    dmSem = DM_MaxConcurrent
              - Cardinality({r \in Requests : dmPc[r] \in {"get", "streaming"}})

(* every download has ended, one with its path returned and one with an     *)
(* exception, and all permits are free                                      *)
C27_Witness ==
    /\ \A r \in Requests : dmPc[r] \in {"returned", "failed"}
    /\ \E r \in Requests : dmPc[r] = "returned"
    /\ \E r \in Requests : dmPc[r] = "failed"
    /\ dmSem = DM_MaxConcurrent

(* C28: the retry hint is sufficient: when can_proceed(u) has returned      *)
(* (false, w) at time t and the next call, made at time t + w, is again for *)
(* u, that call is allowed                                                  *)
C28_RetryHintIsSufficient ==
    [][(/\ rlCalls' = rlCalls + 1
        /\ rlResult.error = "" /\ ~rlResult.allowed /\ rlResult.user \in RL_Users
        /\ rlResult'.user = rlResult.user
        /\ rlNow = rlResult.time + rlResult.wait_time)
          => (rlResult'.allowed /\ rlResult'.error = "")]_vars

(* one user, max_requests 1, time_window 2: granted at 0, refused within    *)
(* the window with a hint that points to time 2, and granted at time 2      *)
C28_Witness ==
    /\ rl_max_requests = 1 /\ rl_time_window = 2
    /\ DOMAIN rlRequests = {1} /\ rlReset = {}
    /\ rlCalls = 3
    /\ rlGranted[1] = <<0, 2>>
    /\ rlResult.user = 1 /\ rlResult.allowed /\ rlResult.time = 2

C30_FirstReplyUsernameSecondPassword ==
    /\ (tbState = "TYPING_REPLY" /\ Len(tbReplies) = 1)
          => tbUserData.username = tbReplies[1]
    /\ tbAttempt /= TB_NoAttempt
          => /\ Len(tbAttempt.replies) = 2
             /\ tbAttempt.username = tbAttempt.replies[1]
             /\ tbAttempt.password = tbAttempt.replies[2]

====
